---- MODULE Spec2Model ----
(***************************************************************************)
(* State-machine model of the news-driven stock recommendation pipeline:   *)
(* RecommendationScorer (scoring.py), TFIDFVectorizer / StockProfileBuilder *)
(* (vectorizer.py), SentimentAnalyzer (sentiment.py) and                    *)
(* ContentBasedRecommender (content_based.py).                              *)
(*                                                                         *)
(* Numbers are fixed point.  Component scores and totals are in hundredths *)
(* of a point (0..10000 for 0..100), sentiment scores in units of 1/10000  *)
(* (-10000..10000 for -1..1), raw scorer weights in tenths (4 for 0.4).    *)
(* Quotients that the code keeps as floats are kept as exact fractions     *)
(* [num, den] so that thresholds are compared without rounding.            *)
(***************************************************************************)
EXTENDS Integers, Sequences, FiniteSets, TLC

VARIABLES
    scorer,      \* the RecommendationScorer under test
    scaled,      \* a second scorer, built from k times the first one's arguments
    lastScore,   \* the last calculate_score call: its inputs and its result
    vec,         \* a TFIDFVectorizer instance
    vecCall,     \* the last call on vec: operation, outcome, state before it
    fitCompleted, \* history: a fit or fit_transform has completed on vec
    news,        \* News table: per stock, how many of its batches are stored
    stored,      \* News.sentiment_score / sentiment_label as committed
    stock_profiles,   \* ContentBasedRecommender._stock_profiles
    stock_sentiments, \* ContentBasedRecommender._stock_sentiments
    ret,         \* the last call on the recommender: arguments, result, state before
    calls,       \* overlapping analyze_stock calls: per caller, its position and locals
    session,     \* self.session: the sentiment assignments not yet committed
    profile_vectorizer, \* fitted state of profile_builder's sklearn vectorizer
    lastAnalysis, \* the last SentimentAnalyzer.analyze call: its text and its result
    corpus,      \* News table of the large-corpus database: per stock, its corpus
    news_rows,   \* News.url of the committed rows NewsManager stored, in order
    lastCall,    \* the last call of a stateless method: its arguments and its outcome
    fetches,     \* per scraper, its fetch_page call: position, attempts, waits
    nlp_modules  \* module globals of preprocessor.py and sentiment.py

scorerVars == <<scorer, scaled, lastScore>>
vecVars == <<vec, vecCall, fitCompleted>>
recVars == <<news, stored, stock_profiles, stock_sentiments, ret>>
callVars == <<calls, session, profile_vectorizer>>
pureVars == <<lastAnalysis>>
dbVars == <<corpus, news_rows>>
fnVars == <<lastCall>>
envVars == <<fetches, nlp_modules>>
vars == <<scorer, scaled, lastScore, vec, vecCall, fitCompleted,
          news, stored, stock_profiles, stock_sentiments, ret,
          calls, session, profile_vectorizer, lastAnalysis, corpus, news_rows, lastCall,
          fetches, nlp_modules>>

\* What the actions of one component leave alone.
NotScorer == <<fnVars, vecVars, recVars, callVars, pureVars, dbVars, envVars>>
NotVec == <<fnVars, scorerVars, recVars, callVars, pureVars, dbVars, envVars>>
NotRec == <<fnVars, scorerVars, vecVars, callVars, pureVars, dbVars, envVars>>
NotCalls == <<fnVars, scorerVars, vecVars, pureVars, dbVars, envVars>>
NotPure == <<fnVars, scorerVars, vecVars, recVars, callVars, dbVars, envVars>>
NotDb == <<fnVars, scorerVars, vecVars, recVars, callVars, pureVars, envVars>>
NotEnv == <<fnVars, scorerVars, vecVars, recVars, callVars, pureVars, dbVars>>
NotFn == <<scorerVars, vecVars, recVars, callVars, pureVars, dbVars, envVars>>

(***************************************************************************)
(* Small arithmetic helpers                                                *)
(***************************************************************************)
Abs(x) == IF x < 0 THEN -x ELSE x

Min2(a, b) == IF a <= b THEN a ELSE b

Max2(a, b) == IF a >= b THEN a ELSE b

RECURSIVE Gcd(_, _)
Gcd(a, b) == IF b = 0 THEN a ELSE Gcd(b, a % b)

\* Python's round() of the fraction n/d (d > 0) to the nearest integer,
\* halves going to the even neighbour.
RoundDiv(n, d) ==
    LET q == n \div d
        r == n % d
    IN  IF 2 * r < d THEN q
        ELSE IF 2 * r > d THEN q + 1
        ELSE IF q % 2 = 0 THEN q ELSE q + 1

\* exp(-k/60) in units of 1/10000, k = 0..200 (entry k+1); from 600 on the
\* value rounds to 0.
ExpTable ==
  << 10000, 9835, 9672, 9512, 9355, 9200, 9048, 8899, 8752, 8607, 8465, 8325, 8187, 8052, 7919,
     7788, 7659, 7533, 7408, 7286, 7165, 7047, 6930, 6816, 6703, 6592, 6483, 6376, 6271, 6167,
     6065, 5965, 5866, 5769, 5674, 5580, 5488, 5397, 5308, 5220, 5134, 5049, 4966, 4884, 4803,
     4724, 4646, 4569, 4493, 4419, 4346, 4274, 4204, 4134, 4066, 3998, 3932, 3867, 3803, 3741,
     3679, 3618, 3558, 3499, 3442, 3385, 3329, 3274, 3220, 3166, 3114, 3063, 3012, 2962, 2913,
     2865, 2818, 2771, 2725, 2680, 2636, 2592, 2550, 2507, 2466, 2425, 2385, 2346, 2307, 2269,
     2231, 2194, 2158, 2122, 2087, 2053, 2019, 1986, 1953, 1920, 1889, 1858, 1827, 1797, 1767,
     1738, 1709, 1681, 1653, 1626, 1599, 1572, 1546, 1521, 1496, 1471, 1447, 1423, 1399, 1376,
     1353, 1331, 1309, 1287, 1266, 1245, 1225, 1204, 1184, 1165, 1146, 1127, 1108, 1090, 1072,
     1054, 1037, 1019, 1003, 986, 970, 954, 938, 922, 907, 892, 877, 863, 849, 835,
     821, 807, 794, 781, 768, 755, 743, 730, 718, 707, 695, 683, 672, 661, 650,
     639, 629, 618, 608, 598, 588, 578, 569, 559, 550, 541, 532, 523, 515, 506,
     498, 490, 482, 474, 466, 458, 450, 443, 436, 429, 421, 414, 408, 401, 394,
     388, 381, 375, 369, 363, 357 >>

\* np.exp(-k/60) in units of 1/10000; for k < 0 the reciprocal of the entry
\* of -k.
ExpNeg60(k) ==
    IF k >= 600 THEN 0
    ELSE IF k < 0 THEN 100000000 \div ExpTable[1 - k]
    ELSE ExpTable[k + 1]

(***************************************************************************)
(* RecommendationScorer (scoring.py)                                       *)
(***************************************************************************)
\* An optional argument: <<>> is None, <<v>> is the value v.
NoneArg == <<>>

Some(v) == <<v>>

\* RECOMMENDATION_CONFIG, in tenths.
CfgSentimentWeight == 4
CfgFrequencyWeight == 2
CfgRecencyWeight == 2
CfgSimilarityWeight == 2

\* Python's `x or default`: None and 0 are both falsy.
OrDefault(x, d) == IF x = NoneArg \/ x[1] = 0 THEN d ELSE x[1]

\* RecommendationScorer.__init__: the four weights after `or`, divided by
\* their sum.  The normalized weights w[i]/den are kept as the fraction in
\* lowest terms with den > 0; a zero sum is ZeroDivisionError.
BuildScorer(a1, a2, a3, a4) ==
    LET raw == << OrDefault(a1, CfgSentimentWeight),
                  OrDefault(a2, CfgFrequencyWeight),
                  OrDefault(a3, CfgRecencyWeight),
                  OrDefault(a4, CfgSimilarityWeight) >>
        total_weight == raw[1] + raw[2] + raw[3] + raw[4]
        g == Gcd(Gcd(Abs(raw[1]), Abs(raw[2])), Gcd(Abs(raw[3]), Abs(raw[4])))
        sgn == IF total_weight < 0 THEN -1 ELSE 1
    IN  IF total_weight = 0
        THEN [state |-> "error", args |-> <<a1, a2, a3, a4>>,
              w |-> <<0, 0, 0, 0>>, den |-> 0]
        ELSE [state |-> "ok", args |-> <<a1, a2, a3, a4>>,
              w |-> [i \in 1..4 |-> sgn * (raw[i] \div g)],
              den |-> sgn * (total_weight \div g)]

Unbuilt == [state |-> "unbuilt", args |-> <<NoneArg, NoneArg, NoneArg, NoneArg>>,
            w |-> <<0, 0, 0, 0>>, den |-> 0]

\* Variant that leaves out the shift by 1.
NormalizeSentiment_Unshifted(sentiment) ==
    [num |-> Max2(0, Min2(20000, sentiment)), den |-> 2]

\* _normalize_sentiment: (sentiment + 1) / 2 * 100 clamped to [0, 100], as
\* the fraction num/2 of hundredths.
NormalizeSentiment(sentiment) ==
    [num |-> Max2(0, Min2(20000, sentiment + 10000)), den |-> 2]

\* _calculate_frequency_score: 100 * (1 - e^(-count/20)), 0 for count <= 0.
CalculateFrequencyScore(news_count) ==
    IF news_count <= 0 THEN 0
    ELSE Min2(10000, 10000 - ExpNeg60(3 * news_count))

\* _calculate_recency_score: 100 * e^(-days/30), 100 for days <= 0.
CalculateRecencyScore(days) ==
    IF days <= 0 THEN 10000
    ELSE Max2(0, ExpNeg60(2 * days))

Max3(a, b, c) == Max2(a, Max2(b, c))

\* Variant that gives the bonus also when positive ties for the largest.
CalculateConsistencyScore_TieBonus(summary) ==
    IF summary.total = 0 THEN [num |-> 5000, den |-> 1]
    ELSE LET positive == summary.positive_count
             negative == summary.negative_count
             neutral == summary.neutral_count
             max_count == Max3(positive, negative, neutral)
         IN  IF positive >= negative /\ positive >= neutral
             THEN [num |-> Min2(10000 * summary.total, max_count * 11000),
                   den |-> summary.total]
             ELSE IF negative > positive /\ negative > neutral
             THEN [num |-> max_count * 9000, den |-> summary.total]
             ELSE [num |-> max_count * 10000, den |-> summary.total]

\* _calculate_consistency_score, as the fraction num/den of hundredths.
CalculateConsistencyScore(summary) ==
    IF summary.total = 0 THEN [num |-> 5000, den |-> 1]
    ELSE LET positive == summary.positive_count
             negative == summary.negative_count
             neutral == summary.neutral_count
             max_count == Max3(positive, negative, neutral)
         IN  IF positive > negative /\ positive > neutral
             THEN [num |-> Min2(10000 * summary.total, max_count * 11000),
                   den |-> summary.total]
             ELSE IF negative > positive /\ negative > neutral
             THEN [num |-> max_count * 9000, den |-> summary.total]
             ELSE [num |-> max_count * 10000, den |-> summary.total]

\* t >= k for a total t = num/den (den > 0) and k in whole points.
AtLeast(t, k) == t.num >= k * 100 * t.den

\* Variant with the first row's sentiment bound made inclusive.
GetRecommendationLabel_Inclusive(score, sentiment) ==
    IF score.num >= 75 * 100 * score.den /\ sentiment >= 3000 THEN "Strong Buy"
    ELSE IF score.num >= 60 * 100 * score.den /\ sentiment > 1000 THEN "Buy"
    ELSE IF score.num >= 40 * 100 * score.den \/ (sentiment > -2000 /\ sentiment < 2000) THEN "Hold"
    ELSE IF score.num >= 25 * 100 * score.den \/ sentiment > -4000 THEN "Sell"
    ELSE "Strong Sell"

\* _get_recommendation_label(score, sentiment).
GetRecommendationLabel(score, sentiment) ==
    IF AtLeast(score, 75) /\ sentiment > 3000 THEN "Strong Buy"
    ELSE IF AtLeast(score, 60) /\ sentiment > 1000 THEN "Buy"
    ELSE IF AtLeast(score, 40) \/ (sentiment > -2000 /\ sentiment < 2000) THEN "Hold"
    ELSE IF AtLeast(score, 25) \/ sentiment > -4000 THEN "Sell"
    ELSE "Strong Sell"

\* calculate_score(sentiment_summary, news_count, recency_days, similarity_score)
\* on scorer sc.  similarity is in hundredths (100 for 1.0), avg_score in
\* units of 1/10000.  `exact` is the
\* unrounded total the label is decided on; the other fields are the returned
\* dictionary.
CalculateScore(sc, summary, news_count, recency_days, similarity_score) ==
    LET avg_sentiment == summary.avg_score
        sentiment_score == NormalizeSentiment(avg_sentiment)
        frequency_score == CalculateFrequencyScore(news_count)
        recency_score == CalculateRecencyScore(recency_days)
        consistency_score == CalculateConsistencyScore(summary)
        weighted == [num |-> (sentiment_score.num * sc.w[1]
                              + 2 * frequency_score * sc.w[2]
                              + 2 * recency_score * sc.w[3]) * consistency_score.den
                             + 2 * consistency_score.num * sc.w[4],
                     den |-> 2 * sc.den * consistency_score.den]
        total_score == IF similarity_score > 0
                       THEN [num |-> weighted.num * 9 + similarity_score * 100 * weighted.den,
                             den |-> weighted.den * 10]
                       ELSE weighted
    IN  [total_score |-> RoundDiv(total_score.num, total_score.den),
         sentiment_score |-> RoundDiv(sentiment_score.num, sentiment_score.den),
         frequency_score |-> frequency_score,
         recency_score |-> recency_score,
         consistency_score |-> RoundDiv(consistency_score.num, consistency_score.den),
         recommendation_label |-> GetRecommendationLabel(total_score, avg_sentiment),
         weights |-> [w |-> sc.w, den |-> sc.den],
         exact |-> total_score]

(***************************************************************************)
(* Inputs of the scorer specifications                                     *)
(***************************************************************************)
MaxRawWeight == 2
MaxScale == 3
MaxCount == 2

\* Raw weights a caller may pass: None, or a number of tenths.
RawWeights == {NoneArg} \cup {Some(v) : v \in -1..MaxRawWeight}

\* Argument tuples used where calculate_score is exercised.
ScoreArgs == { <<NoneArg, NoneArg, NoneArg, NoneArg>>,
               <<Some(1), Some(1), Some(1), Some(1)>>,
               <<Some(1), NoneArg, Some(2), Some(-1)>> }

AvgScores == {-7000, -5000, -4000, -3000, -2000, 0, 1000, 1500, 2000, 3000, 3500, 7000}

MkSummary(avg, p, n, u) ==
    [avg_score |-> avg, positive_count |-> p, negative_count |-> n,
     neutral_count |-> u, total |-> p + n + u]

CountTriples == {<<p, n, u>> : p \in 0..MaxCount, n \in 0..MaxCount, u \in 0..MaxCount}
                \cup {<<8, 1, 1>>, <<1, 7, 2>>}

Summaries == {MkSummary(a, c[1], c[2], c[3]) : a \in AvgScores, c \in CountTriples}

NewsCounts == {0, 3, 20, 25}

RecencyDays == {0, 2, 3, 30, 999}

Similarities == {0, 50, 100}

NoScore == [called |-> FALSE]

(***************************************************************************)
(* Scorer actions                                                          *)
(***************************************************************************)
\* RecommendationScorer(a1, a2, a3, a4)
NewScorer(a1, a2, a3, a4) ==
    /\ scorer' = BuildScorer(a1, a2, a3, a4)
    /\ scaled' = Unbuilt
    /\ lastScore' = NoScore
    /\ UNCHANGED NotScorer

\* Scale a weight argument; None stays None.
ScaleArg(a, k) == IF a = NoneArg THEN NoneArg ELSE Some(k * a[1])

\* RecommendationScorer(k*a1, k*a2, k*a3, k*a4) for the arguments of `scorer`.
NewScaled(k) ==
    /\ scorer.state # "unbuilt"
    /\ scaled' = BuildScorer(ScaleArg(scorer.args[1], k), ScaleArg(scorer.args[2], k),
                             ScaleArg(scorer.args[3], k), ScaleArg(scorer.args[4], k))
    /\ UNCHANGED <<scorer, lastScore>>
    /\ UNCHANGED NotScorer

\* scorer.calculate_score(summary, news_count, recency_days, similarity).  The
\* call reads the scorer and writes nothing; one call is recorded per scorer
\* (constructing a scorer clears the record).
CanScore == scorer.state = "ok" /\ ~lastScore.called

Score(summary, news_count, recency_days, similarity) ==
    /\ lastScore' = [called |-> TRUE, summary |-> summary, news_count |-> news_count,
                     recency_days |-> recency_days, similarity |-> similarity,
                     result |-> CalculateScore(scorer, summary, news_count,
                                               recency_days, similarity)]
    /\ UNCHANGED <<scorer, scaled>>
    /\ UNCHANGED NotScorer

InitScorer ==
    /\ scorer = Unbuilt
    /\ scaled = Unbuilt
    /\ lastScore = NoScore

(***************************************************************************)
(* Text, preprocessing and the sklearn TF-IDF fit (preprocessor.py,        *)
(* vectorizer.py).  A text is the sequence of its lower-case words; the    *)
(* words used are root forms, which the stemmer leaves as they are.        *)
(***************************************************************************)
\* TextPreprocessor._get_custom_stopwords (the entries the texts use).
CustomStopwords == {"akan"}

\* TextPreprocessor.preprocess with settings pp: clean, tokenize, remove
\* stopwords when pp.remove_stopwords, stem (identity on root forms).
Preprocess(pp, text) ==
    IF pp.remove_stopwords
    THEN SelectSeq(text, LAMBDA t : t \notin CustomStopwords)
    ELSE text

\* The n-grams of ngram_range (1, 2): words <<a>> and adjacent pairs <<a, b>>.
Ngrams(tokens) ==
    {<<tokens[i]>> : i \in 1..Len(tokens)}
    \cup {<<tokens[i], tokens[i + 1]>> : i \in 1..(Len(tokens) - 1)}

\* A sequence given by a function expression, as the tuple of its values
\* (each element is then computed once).
AsTuple(f) == SubSeq(f, 1, Len(f))

\* The n-gram sets of a sequence of processed documents.
DocGrams(docs) == AsTuple([i \in 1..Len(docs) |-> Ngrams(docs[i])])

\* Document frequency of a term, given the documents' n-gram sets.
DocFreq(term, grams) == Cardinality({i \in 1..Len(grams) : term \in grams[i]})

ToSet(q) == {q[i] : i \in 1..Len(q)}

AllTerms(docs) == UNION ToSet(DocGrams(docs))

\* TfidfVectorizer(min_df=2, max_df=0.95): absolute and proportional bounds.
MinDf == 2
MaxDfPercent == 95

\* The vocabulary sklearn keeps: min_df <= df <= max_df * n_docs.
InDfRange(df, n_docs) == df >= MinDf /\ 100 * df <= MaxDfPercent * n_docs

PruneVocabulary(grams) ==
    {t \in UNION ToSet(grams) : InDfRange(DocFreq(t, grams), Len(grams))}

FitVocabulary(docs) == PruneVocabulary(DocGrams(docs))

\* sklearn's fit raises ValueError on an empty vocabulary, when max_df is
\* fewer documents than min_df, and when pruning leaves no term.
FitRaises(docs) ==
    \/ AllTerms(docs) = {}
    \/ MaxDfPercent * Len(docs) < 100 * MinDf
    \/ FitVocabulary(docs) = {}

\* Alphabetical rank of the words the texts use; sklearn sorts the fitted
\* vocabulary, and a phrase sorts right after its first word.
WordRank ==
    ("akan" :> 0) @@ ("laba" :> 1) @@ ("naik" :> 2) @@ ("rugi" :> 3) @@
    ("saham" :> 4) @@ ("sangat" :> 5) @@ ("stabil" :> 6) @@ ("tidak" :> 7) @@
    ("turun" :> 8)

TermLess(a, b) ==
    \/ WordRank[a[1]] < WordRank[b[1]]
    \/ /\ a[1] = b[1]
       /\ \/ Len(a) < Len(b)
          \/ Len(a) = 2 /\ Len(b) = 2 /\ WordRank[a[2]] < WordRank[b[2]]

\* Number of occurrences of an n-gram in a processed document.
TermCount(term, tokens) ==
    IF Len(term) = 1
    THEN Cardinality({i \in 1..Len(tokens) : tokens[i] = term[1]})
    ELSE Cardinality({i \in 1..(Len(tokens) - 1) :
                          tokens[i] = term[1] /\ tokens[i + 1] = term[2]})

(***************************************************************************)
(* TFIDFVectorizer (vectorizer.py)                                         *)
(***************************************************************************)
\* TFIDFVectorizer.__init__ with the preprocessor it was handed.
NewVectorizer(pp) ==
    [preprocessor |-> pp, is_fitted |-> FALSE, feature_names |-> {}]

ProcessAll(v, texts) == [i \in 1..Len(texts) |-> Preprocess(v.preprocessor, texts[i])]

\* Variant of the fit that forgets to record that it was fitted.
FitState_Forgets(v, texts) ==
    [v EXCEPT !.feature_names = FitVocabulary(ProcessAll(v, texts))]

\* The vectorizer after a fit / fit_transform over texts that does not raise.
FitState(v, texts) ==
    [v EXCEPT !.feature_names = FitVocabulary(ProcessAll(v, texts)),
              !.is_fitted = TRUE]

\* transform's result: per document, the fitted features it contains.
TransformRows(v, texts) ==
    [i \in 1..Len(texts) |-> Ngrams(Preprocess(v.preprocessor, texts[i])) \cap v.feature_names]

\* get_top_keywords(text, top_n): a throwaway single-document TfidfVectorizer
\* (min_df=1, max_df=1.0); the terms with the top_n largest weights.  With one
\* document every idf is 1, so the weight order is the count order; equal
\* weights keep their index (alphabetical) order in argsort, so the later
\* term is taken first.  The result is the set of (term, count) kept; [] for
\* text that preprocesses to nothing.  `vector.argsort()[-top_n:]` keeps
\* everything for top_n = 0.
TopCounted(counted, top_n) ==
    {t \in counted :
        \/ top_n = 0
        \/ Cardinality({u \in counted :
               \/ u.count > t.count
               \/ u.count = t.count /\ TermLess(t.term, u.term)}) < top_n}

CountTerms(processed) ==
    {[term |-> t, count |-> TermCount(t, processed)] : t \in Ngrams(processed)}

TopKeywords(v, text, top_n) ==
    TopCounted(CountTerms(Preprocess(v.preprocessor, text)), top_n)

NoCall == [op |-> "none", outcome |-> "none", before |-> NewVectorizer([remove_stopwords |-> TRUE]),
           fitBefore |-> FALSE]

Called(op, outcome) ==
    [op |-> op, outcome |-> outcome, before |-> vec, fitBefore |-> fitCompleted]

InitVec ==
    /\ vec = NewVectorizer([remove_stopwords |-> TRUE])
    /\ vecCall = NoCall
    /\ fitCompleted = FALSE

\* vec.fit(texts)
Fit(texts) ==
    /\ IF FitRaises(ProcessAll(vec, texts))
       THEN /\ vecCall' = Called("fit", "ValueError")
            /\ UNCHANGED <<vec, fitCompleted>>
       ELSE /\ vec' = FitState(vec, texts)
            /\ vecCall' = Called("fit", "ok")
            /\ fitCompleted' = TRUE
    /\ UNCHANGED NotVec

\* vec.fit_transform(texts)
FitTransform(texts) ==
    /\ IF FitRaises(ProcessAll(vec, texts))
       THEN /\ vecCall' = Called("fit_transform", "ValueError")
            /\ UNCHANGED <<vec, fitCompleted>>
       ELSE /\ vec' = FitState(vec, texts)
            /\ vecCall' = Called("fit_transform", "ok")
            /\ fitCompleted' = TRUE
    /\ UNCHANGED NotVec

\* vec.transform(texts)
Transform(texts) ==
    /\ vecCall' = Called("transform", IF ~vec.is_fitted THEN "NotFitted" ELSE "ok")
    /\ UNCHANGED <<vec, fitCompleted>>
    /\ UNCHANGED NotVec

\* vec.get_top_keywords(text, top_n)
GetTopKeywords(text, top_n) ==
    /\ vecCall' = [Called("get_top_keywords", "ok") EXCEPT
                      !.outcome = IF TopKeywords(vec, text, top_n) = {} THEN "empty" ELSE "ok"]
    /\ UNCHANGED <<vec, fitCompleted>>
    /\ UNCHANGED NotVec

\* vec.find_similar(query_text, corpus_texts, top_n): fit_transform on the
\* corpus, then transform of the query.
FindSimilar(query_text, corpus_texts) ==
    /\ IF FitRaises(ProcessAll(vec, corpus_texts))
       THEN /\ vecCall' = Called("find_similar", "ValueError")
            /\ UNCHANGED <<vec, fitCompleted>>
       ELSE /\ vec' = FitState(vec, corpus_texts)
            /\ vecCall' = Called("find_similar",
                                 IF ~FitState(vec, corpus_texts).is_fitted
                                 THEN "NotFitted" ELSE "ok")
            /\ fitCompleted' = TRUE
    /\ UNCHANGED NotVec

\* Texts and corpora of the vectorizer specification.
MaxDocs == 3
MaxTopN == 2

VecTexts == { <<"laba", "naik">>, <<"laba", "turun">>, <<"akan">> }

RECURSIVE SeqsUpTo(_, _)
SeqsUpTo(S, n) ==
    IF n = 0 THEN {<<>>}
    ELSE LET shorter == SeqsUpTo(S, n - 1)
         IN  shorter \cup {Append(q, x) : q \in {r \in shorter : Len(r) = n - 1}, x \in S}

Corpora == SeqsUpTo(VecTexts, MaxDocs)

NextVec ==
    \/ \E c \in Corpora : Fit(c)
    \/ \E c \in Corpora : FitTransform(c)
    \/ \E c \in Corpora : Transform(c)
    \/ \E t \in VecTexts \cup {<<>>}, n \in 0..MaxTopN : GetTopKeywords(t, n)
    \/ \E q \in VecTexts, c \in Corpora : FindSimilar(q, c)

(***************************************************************************)
(* SentimentAnalyzer (sentiment.py).  Lexicon scores and intensifiers are  *)
(* in tenths; a word's contribution is in units of 1/200 so that the       *)
(* halving of a negated word stays whole.                                  *)
(***************************************************************************)
\* _build_positive_lexicon / _build_negative_lexicon: the entries the texts
\* use, single words and two-word phrases, in tenths.
PositiveWords == ("laba" :> 10) @@ ("naik" :> 7) @@ ("stabil" :> 5) @@ ("baik" :> 5)

NegativeWords == ("rugi" :> -10) @@ ("turun" :> -7) @@ ("gagal" :> -9) @@ ("lambat" :> -4)

PositiveBigrams == (<<"golden", "cross">> :> 8)

NegativeBigrams == (<<"tidak", "pasti">> :> -5) @@ (<<"death", "cross">> :> -8)

\* self.intensifiers, in tenths.
Intensifiers ==
    ("sangat" :> 15) @@ ("amat" :> 15) @@ ("sekali" :> 13) @@ ("begitu" :> 13)
    @@ ("paling" :> 15) @@ ("ter" :> 13) @@ ("sungguh" :> 14) @@ ("benar" :> 13)
    @@ ("lumayan" :> 12) @@ ("cukup" :> 11) @@ ("agak" :> 8) @@ ("sedikit" :> 7)
    @@ ("kurang" :> 6) @@ ("hampir" :> 9) @@ ("nyaris" :> 9)

\* self.negations.
Negations == {"tidak", "bukan", "belum", "tanpa", "jangan", "tak", "tiada",
              "enggan", "gagal", "mustahil", "tidak ada"}

\* tanh(k/100) in units of 1/1000000, k = 0..152 (entry k+1).
TanhTable ==
  <<
     0, 10000, 19997, 29991, 39979, 49958, 59928, 69886, 79830, 89758, 99668, 109558,
     119427, 129273, 139092, 148885, 158649, 168381, 178081, 187746, 197375, 206966, 216518, 226028,
     235496, 244919, 254296, 263625, 272905, 282135, 291313, 300437, 309507, 318521, 327477, 336376,
     345214, 353992, 362707, 371360, 379949, 388473, 396930, 405321, 413644, 421899, 430084, 438199,
     446244, 454216, 462117, 469945, 477700, 485381, 492988, 500520, 507977, 515359, 522665, 529896,
     537050, 544127, 551128, 558052, 564900, 571670, 578363, 584980, 591519, 597982, 604368, 610677,
     616909, 623065, 629145, 635149, 641077, 646929, 652707, 658409, 664037, 669590, 675070, 680476,
     685809, 691069, 696258, 701374, 706419, 711394, 716298, 721132, 725897, 730594, 735222, 739783,
     744277, 748704, 753066, 757362, 761594, 765762, 769867, 773908, 777888, 781806, 785664, 789461,
     793199, 796878, 800499, 804062, 807569, 811019, 814414, 817754, 821040, 824272, 827452, 830579,
     833655, 836679, 839654, 842579, 845456, 848284, 851064, 853798, 856485, 859127, 861723, 864275,
     866784, 869249, 871672, 874053, 876393, 878692, 880951, 883171, 885352, 887494, 889599, 891667,
     893698, 895693, 897653, 899577, 901468, 903325, 905148, 906939, 908698 >>

\* math.tanh(n / (100 * d)) in units of 1/1000000, interpolated between the
\* table's hundredths (n may be negative, d > 0).
Tanh(n, d) ==
    LET a == Abs(n)
        q == a \div d
        r == a % d
        t == TanhTable[q + 1] + ((TanhTable[q + 2] - TanhTable[q + 1]) * r) \div d
    IN  IF n < 0 THEN -t ELSE t

\* Variant that leaves a negated positive word in the positive list.
AnalyzeStep_NegatedStaysPositive(tokens, i, acc) ==
    LET token == tokens[i]
        has_negation == i > 1 /\ tokens[i - 1] \in Negations
        intensifier == IF i > 1 /\ tokens[i - 1] \in DOMAIN Intensifiers
                       THEN Intensifiers[tokens[i - 1]] ELSE 10
        uni == IF token \in DOMAIN PositiveWords
               THEN LET score == PositiveWords[token] * intensifier
                    IN  IF has_negation
                        THEN [acc EXCEPT !.total_score = @ - score,
                                         !.word_count = @ + 1,
                                         !.positive_found = Append(@, <<token, -score>>)]
                        ELSE [acc EXCEPT !.total_score = @ + 2 * score,
                                         !.word_count = @ + 1,
                                         !.positive_found = Append(@, <<token, 2 * score>>)]
               ELSE IF token \in DOMAIN NegativeWords
               THEN LET score == NegativeWords[token] * intensifier
                    IN  IF has_negation
                        THEN [acc EXCEPT !.total_score = @ - score,
                                         !.word_count = @ + 1,
                                         !.positive_found = Append(@, <<token, Abs(score)>>)]
                        ELSE [acc EXCEPT !.total_score = @ + 2 * score,
                                         !.word_count = @ + 1,
                                         !.negative_found = Append(@, <<token, 2 * score>>)]
               ELSE acc
        bigram == IF i < Len(tokens) THEN <<token, tokens[i + 1]>> ELSE <<>>
    IN  IF bigram \in DOMAIN PositiveBigrams
        THEN [uni EXCEPT !.total_score = @ + 20 * PositiveBigrams[bigram],
                         !.word_count = @ + 1,
                         !.positive_found = Append(@, <<bigram, 20 * PositiveBigrams[bigram]>>)]
        ELSE IF bigram \in DOMAIN NegativeBigrams
        THEN [uni EXCEPT !.total_score = @ + 20 * NegativeBigrams[bigram],
                         !.word_count = @ + 1,
                         !.negative_found = Append(@, <<bigram, 20 * NegativeBigrams[bigram]>>)]
        ELSE uni

\* Variant that also looks for a negation two tokens back.
AnalyzeStep_NegationWindow(tokens, i, acc) ==
    LET token == tokens[i]
        has_negation == \/ i > 1 /\ tokens[i - 1] \in Negations
                        \/ i > 2 /\ tokens[i - 2] \in Negations
        intensifier == IF i > 1 /\ tokens[i - 1] \in DOMAIN Intensifiers
                       THEN Intensifiers[tokens[i - 1]] ELSE 10
        uni == IF token \in DOMAIN PositiveWords
               THEN LET score == PositiveWords[token] * intensifier
                    IN  IF has_negation
                        THEN [acc EXCEPT !.total_score = @ - score,
                                         !.word_count = @ + 1,
                                         !.negative_found = Append(@, <<token, -score>>)]
                        ELSE [acc EXCEPT !.total_score = @ + 2 * score,
                                         !.word_count = @ + 1,
                                         !.positive_found = Append(@, <<token, 2 * score>>)]
               ELSE IF token \in DOMAIN NegativeWords
               THEN LET score == NegativeWords[token] * intensifier
                    IN  IF has_negation
                        THEN [acc EXCEPT !.total_score = @ - score,
                                         !.word_count = @ + 1,
                                         !.positive_found = Append(@, <<token, Abs(score)>>)]
                        ELSE [acc EXCEPT !.total_score = @ + 2 * score,
                                         !.word_count = @ + 1,
                                         !.negative_found = Append(@, <<token, 2 * score>>)]
               ELSE acc
        bigram == IF i < Len(tokens) THEN <<token, tokens[i + 1]>> ELSE <<>>
    IN  IF bigram \in DOMAIN PositiveBigrams
        THEN [uni EXCEPT !.total_score = @ + 20 * PositiveBigrams[bigram],
                         !.word_count = @ + 1,
                         !.positive_found = Append(@, <<bigram, 20 * PositiveBigrams[bigram]>>)]
        ELSE IF bigram \in DOMAIN NegativeBigrams
        THEN [uni EXCEPT !.total_score = @ + 20 * NegativeBigrams[bigram],
                         !.word_count = @ + 1,
                         !.negative_found = Append(@, <<bigram, 20 * NegativeBigrams[bigram]>>)]
        ELSE uni

\* One pass of the while loop of analyze for token i: the accumulator after
\* the unigram check and the bigram check.
AnalyzeStep(tokens, i, acc) ==
    LET token == tokens[i]
        has_negation == i > 1 /\ tokens[i - 1] \in Negations
        intensifier == IF i > 1 /\ tokens[i - 1] \in DOMAIN Intensifiers
                       THEN Intensifiers[tokens[i - 1]] ELSE 10
        uni == IF token \in DOMAIN PositiveWords
               THEN LET score == PositiveWords[token] * intensifier
                    IN  IF has_negation
                        THEN [acc EXCEPT !.total_score = @ - score,
                                         !.word_count = @ + 1,
                                         !.negative_found = Append(@, <<token, -score>>)]
                        ELSE [acc EXCEPT !.total_score = @ + 2 * score,
                                         !.word_count = @ + 1,
                                         !.positive_found = Append(@, <<token, 2 * score>>)]
               ELSE IF token \in DOMAIN NegativeWords
               THEN LET score == NegativeWords[token] * intensifier
                    IN  IF has_negation
                        THEN [acc EXCEPT !.total_score = @ - score,
                                         !.word_count = @ + 1,
                                         !.positive_found = Append(@, <<token, Abs(score)>>)]
                        ELSE [acc EXCEPT !.total_score = @ + 2 * score,
                                         !.word_count = @ + 1,
                                         !.negative_found = Append(@, <<token, 2 * score>>)]
               ELSE acc
        bigram == IF i < Len(tokens) THEN <<token, tokens[i + 1]>> ELSE <<>>
    IN  IF bigram \in DOMAIN PositiveBigrams
        THEN [uni EXCEPT !.total_score = @ + 20 * PositiveBigrams[bigram],
                         !.word_count = @ + 1,
                         !.positive_found = Append(@, <<bigram, 20 * PositiveBigrams[bigram]>>)]
        ELSE IF bigram \in DOMAIN NegativeBigrams
        THEN [uni EXCEPT !.total_score = @ + 20 * NegativeBigrams[bigram],
                         !.word_count = @ + 1,
                         !.negative_found = Append(@, <<bigram, 20 * NegativeBigrams[bigram]>>)]
        ELSE uni

\* The while loop of analyze: loop holds the index i of the next token and
\* the accumulators acc after the passes before it.
RECURSIVE AnalyzeWhile(_, _)
AnalyzeWhile(tokens, loop) ==
    IF loop.i > Len(tokens) THEN loop.acc
    ELSE AnalyzeWhile(tokens, [i |-> loop.i + 1,
                               acc |-> AnalyzeStep(tokens, loop.i, loop.acc)])

AnalyzeLoop(tokens, i, acc) == AnalyzeWhile(tokens, [i |-> i, acc |-> acc])

\* The label of an (unrounded) score in units of 1/1000000.
SentimentLabel(score) ==
    IF score > 200000 THEN "positif"
    ELSE IF score < -200000 THEN "negatif"
    ELSE "netral"

\* Variant whose confidence keeps the base 0.3 when no word matched.
AnalyzeResult_BaseConfidence(acc, sentiment_score) ==
    [sentiment_score |-> RoundDiv(sentiment_score, 100),
     sentiment_label |-> SentimentLabel(sentiment_score),
     confidence |-> RoundDiv(Min2(1000000,
                        (acc.word_count * Abs(sentiment_score)) \div 10 + 300000), 100),
     positive_words |-> acc.positive_found,
     negative_words |-> acc.negative_found,
     details |-> [total_sentiment_words |-> acc.word_count,
                  raw_score |-> acc.total_score * 50,
                  text_length |-> acc.text_length]]

\* analyze(text) for a text given as its cleaned tokens; `given` is false for
\* the empty string / None (`if not text`).  sentiment_score, confidence and
\* raw_score are the returned values, rounded to 4 decimals (units of
\* 1/10000); the scores in the word lists are in units of 1/200.
AnalyzeResult(acc, sentiment_score) ==
    [sentiment_score |-> RoundDiv(sentiment_score, 100),
     sentiment_label |-> SentimentLabel(sentiment_score),
     confidence |-> IF acc.word_count > 0
                    THEN RoundDiv(Min2(1000000,
                             (acc.word_count * Abs(sentiment_score)) \div 10 + 300000), 100)
                    ELSE 0,
     positive_words |-> acc.positive_found,
     negative_words |-> acc.negative_found,
     details |-> [total_sentiment_words |-> acc.word_count,
                  raw_score |-> acc.total_score * 50,
                  text_length |-> acc.text_length]]

AnalyzeFound(acc) ==
    AnalyzeResult(acc, IF acc.word_count > 0
                       THEN Tanh(acc.total_score, 2 * acc.word_count)
                       ELSE 0)

Analyze(given, tokens) ==
    IF ~given
    THEN [sentiment_score |-> 0, sentiment_label |-> "netral", confidence |-> 0,
          positive_words |-> <<>>, negative_words |-> <<>>, details |-> <<>>]
    ELSE AnalyzeFound(AnalyzeLoop(tokens, 1,
             [total_score |-> 0, word_count |-> 0,
              positive_found |-> <<>>, negative_found |-> <<>>,
              text_length |-> Len(tokens)]))

RECURSIVE SumSeq(_)
SumSeq(q) ==
    IF Len(q) = 0 THEN 0
    ELSE IF Len(q) = 1 THEN q[1]
    ELSE SumSeq(SubSeq(q, 1, Len(q) \div 2)) + SumSeq(SubSeq(q, Len(q) \div 2 + 1, Len(q)))

CountLabel(labels, l) == Cardinality({i \in 1..Len(labels) : labels[i] = l})

\* Variant that takes every result that is not positive for a negative one.
GetSentimentSummary_TwoWay(results) ==
    IF results = <<>>
    THEN [avg_score |-> 0, positive_count |-> 0, negative_count |-> 0,
          neutral_count |-> 0, total |-> 0]
    ELSE LET scores == AsTuple([i \in 1..Len(results) |-> results[i].sentiment_score])
             labels == AsTuple([i \in 1..Len(results) |-> results[i].sentiment_label])
         IN  [avg_score |-> RoundDiv(SumSeq(scores), Len(scores)),
              positive_count |-> CountLabel(labels, "positif"),
              negative_count |-> CountLabel(labels, "negatif"),
              neutral_count |-> 0,
              total |-> Len(results)]

\* get_sentiment_summary(results): results are records with sentiment_score
\* and sentiment_label.  (min_score / max_score are not modelled.)
GetSentimentSummary(results) ==
    IF results = <<>>
    THEN [avg_score |-> 0, positive_count |-> 0, negative_count |-> 0,
          neutral_count |-> 0, total |-> 0]
    ELSE LET scores == AsTuple([i \in 1..Len(results) |-> results[i].sentiment_score])
             labels == AsTuple([i \in 1..Len(results) |-> results[i].sentiment_label])
         IN  [avg_score |-> RoundDiv(SumSeq(scores), Len(scores)),
              positive_count |-> CountLabel(labels, "positif"),
              negative_count |-> CountLabel(labels, "negatif"),
              neutral_count |-> CountLabel(labels, "netral"),
              total |-> Len(results)]

(***************************************************************************)
(* Numeric TF-IDF: what sklearn's TfidfVectorizer(sublinear_tf=True)       *)
(* computes for the fitted vocabulary, in fixed point.                     *)
(***************************************************************************)
\* get_feature_names_out(): the vocabulary in sorted order.
RECURSIVE SortTerms(_)
FirstThenRest(S, first) == <<first>> \o SortTerms(S \ {first})

SortTerms(S) ==
    IF S = {} THEN <<>>
    ELSE FirstThenRest(S, CHOOSE x \in S : \A y \in S \ {x} : TermLess(x, y))

\* ln(k) in units of 1/10000, k = 1..101.
LnTable ==
    <<0, 6931, 10986, 13863, 16094, 17918, 19459, 20794, 21972, 23026,
      23979, 24849, 25649, 26391, 27081, 27726, 28332, 28904, 29444, 29957,
      30445, 30910, 31355, 31781, 32189, 32581, 32958, 33322, 33673, 34012,
      34340, 34657, 34965, 35264, 35553, 35835, 36109, 36376, 36636, 36889,
      37136, 37377, 37612, 37842, 38067, 38286, 38501, 38712, 38918, 39120,
      39318, 39512, 39703, 39890, 40073, 40254, 40431, 40604, 40775, 40943,
      41109, 41271, 41431, 41589, 41744, 41897, 42047, 42195, 42341, 42485,
      42627, 42767, 42905, 43041, 43175, 43307, 43438, 43567, 43694, 43820,
      43944, 44067, 44188, 44308, 44427, 44543, 44659, 44773, 44886, 44998,
      45109, 45218, 45326, 45433, 45539, 45643, 45747, 45850, 45951, 46052,
      46151>>

RECURSIVE ISqrtIter(_, _, _)
ISqrtIter(n, lo, hi) ==
    IF lo >= hi THEN lo
    ELSE LET mid == (lo + hi + 1) \div 2
         IN  IF mid * mid <= n THEN ISqrtIter(n, mid, hi)
             ELSE ISqrtIter(n, lo, mid - 1)

\* floor(sqrt(n)) for 0 <= n < 2^31.
ISqrt(n) == ISqrtIter(n, 0, Min2(n, 46340))

\* smooth idf: ln((1 + n) / (1 + df)) + 1, in units of 1/10000.
Idf(n, df) == LnTable[1 + n] - LnTable[1 + df] + 10000

\* Unnormalised weight of a term of inverse document frequency idf in a
\* document, in units of 1/1000: (1 + ln tf) * idf, 0 for an absent term.
RawWeight(term, tokens, idf) ==
    LET tf == TermCount(term, tokens)
    IN  IF tf = 0 THEN 0
        ELSE ((10000 + LnTable[tf]) * idf) \div 100000

\* L2 normalisation of a row of raw weights, to units of 1/10000.
ScaleRow(raw, norm) ==
    AsTuple([k \in 1..Len(raw) |-> IF norm = 0 THEN 0 ELSE (raw[k] * 10000) \div norm])

NormalizeRow(raw) ==
    ScaleRow(raw, ISqrt(SumSeq([k \in 1..Len(raw) |-> raw[k] * raw[k]])))

\* One row of fit_transform's matrix: the normalised weights of a document
\* over the sorted vocabulary; idf[k] is the fitted idf of feature k.
TfidfRow(tokens, features, idf) ==
    NormalizeRow(AsTuple([k \in 1..Len(features) |->
                             RawWeight(features[k], tokens, idf[k])]))

FittedIdf(features, grams) ==
    AsTuple([k \in 1..Len(features) |-> Idf(Len(grams), DocFreq(features[k], grams))])

TfidfRows(docs, features, idf) ==
    AsTuple([i \in 1..Len(docs) |-> TfidfRow(docs[i], features, idf)])

\* self.vectorizer.fit_transform(processed_texts).toarray() for documents
\* whose fit does not raise.
FitTransformRows(docs, features) ==
    TfidfRows(docs, features, FittedIdf(features, DocGrams(docs)))

\* np.mean(tfidf_array * weights, axis=0), in units of 1/10000.
WeightedMean(rows, weights, n_features) ==
    AsTuple([k \in 1..n_features |->
                SumSeq([i \in 1..Len(rows) |-> rows[i][k] * weights[i]])
                    \div (10000 * Len(rows))])

ProfileOfDocs(docs, features, weights) ==
    WeightedMean(FitTransformRows(docs, features), weights, Len(features))

\* StockProfileBuilder.build_profile_from_news(news_texts, weights) for texts
\* whose fit does not raise.  The profile's length is the size of the fitted
\* vocabulary.
ProfileOfProcessed(docs, weights) ==
    ProfileOfDocs(docs, SortTerms(FitVocabulary(docs)), weights)

BuildProfileFromNews(pp, news_texts, weights) ==
    ProfileOfProcessed(AsTuple([i \in 1..Len(news_texts) |->
                                   Preprocess(pp, news_texts[i])]), weights)

\* _cosine_similarity(vec1, vec2) in units of 1/10000 for vectors of one
\* length; np.dot raises ValueError for vectors of different lengths, which
\* the callers test with Len.
Norm(v) == ISqrt(SumSeq([k \in 1..Len(v) |-> v[k] * v[k]]))

\* num / den in units of 1/10000, by long division: one decimal digit per
\* step keeps every product below 2^31.
RECURSIVE DecimalDigits(_, _, _, _)
DecimalDigits(rem, den, digits, acc) ==
    IF digits = 0 THEN acc
    ELSE DecimalDigits((rem * 10) % den, den, digits - 1, acc * 10 + (rem * 10) \div den)

Quotient(num, den) == DecimalDigits(num % den, den, 4, num \div den)

\* dot / (norm1 * norm2), 0.0 when a norm is 0.
CosineOf(dot, norm1, norm2) ==
    IF norm1 = 0 \/ norm2 = 0 THEN 0
    ELSE Quotient(dot, norm1 * norm2)

CosineSimilarity(vec1, vec2) ==
    CosineOf(SumSeq([k \in 1..Len(vec1) |-> vec1[k] * vec2[k]]), Norm(vec1), Norm(vec2))

\* _calculate_recency_weights for the ages (in days) of the news, in units
\* of 1/10000: max(e^(-days/30), 0.1), normalised to sum 1.
NormalizeWeights(w, total) == AsTuple([i \in 1..Len(w) |-> (w[i] * 10000) \div total])

CalculateRecencyWeights(days_old) ==
    NormalizeWeights(
        AsTuple([i \in 1..Len(days_old) |-> Max2(ExpNeg60(2 * days_old[i]), 1000)]),
        SumSeq([i \in 1..Len(days_old) |-> Max2(ExpNeg60(2 * days_old[i]), 1000)]))

(***************************************************************************)
(* The database the recommender reads (database.py, news_manager.py).      *)
(* Stocks are listed in table order.  A stock's news arrives in batches,   *)
(* one per update_news_for_stock call; a batch scraped before the          *)
(* recommender was built is already in the table.  Ages are in days;       *)
(* every article carries a published date and a distinct URL.              *)
(***************************************************************************)
Codes == <<"AAAA", "BBBB", "CCCC">>

CodeSet == {Codes[i] : i \in 1..Len(Codes)}

Sektor == ("AAAA" :> "Keuangan") @@ ("BBBB" :> "Energi") @@ ("CCCC" :> "Keuangan")

Article(id, text, scraped_age, published_age) ==
    [id |-> id, text |-> text, scraped_age |-> scraped_age, published_age |-> published_age]

\* text is f"{title} {content or ''}" as its words.
Batches ==
    ("AAAA" :> << << Article("a1", <<"laba", "naik">>, 10, 12),
                     Article("a2", <<"laba", "naik", "saham">>, 10, 11) >>,
                  << Article("a3", <<"saham", "turun">>, 0, 1) >>,
                  << Article("a4", <<"rugi", "saham", "turun">>, 0, 0) >> >>) @@
    ("BBBB" :> << << Article("b1", <<"laba", "naik">>, 0, 3),
                     Article("b2", <<"rugi", "turun">>, 0, 2),
                     Article("b3", <<"saham", "stabil">>, 0, 1) >>,
                  << Article("b4", <<"tidak", "laba", "naik", "saham">>, 0, 0) >> >>) @@
    ("CCCC" :> << << Article("c0", <<"saham", "sangat", "stabil">>, 10, 15) >>,
                  << Article("c1", <<"rugi", "turun">>, 0, 2),
                     Article("c2", <<"rugi", "turun", "saham">>, 0, 1),
                     Article("c3", <<"saham", "stabil">>, 0, 0) >> >>)

\* Batches already scraped when the recommender is built.
InitialNews == ("AAAA" :> 1) @@ ("BBBB" :> 0) @@ ("CCCC" :> 1)

RECURSIVE Flatten(_)
Flatten(seqs) ==
    IF Len(seqs) = 0 THEN <<>>
    ELSE IF Len(seqs) = 1 THEN seqs[1]
    ELSE Flatten(SubSeq(seqs, 1, Len(seqs) \div 2))
         \o Flatten(SubSeq(seqs, Len(seqs) \div 2 + 1, Len(seqs)))

ArticleIds == UNION {{a.id : a \in ToSet(Flatten(Batches[c]))} : c \in CodeSet}

\* The News rows of a stock when n[c] of its batches have been stored.
NewsRows(n, c) == ToSet(Flatten(SubSeq(Batches[c], 1, n[c])))

\* .order_by(News.published_date.desc()).all() over a set of rows.
RECURSIVE OrderByPublishedDesc(_)
LatestThenRest(rows, latest) == <<latest>> \o OrderByPublishedDesc(rows \ {latest})

OrderByPublishedDesc(rows) ==
    IF rows = {} THEN <<>>
    ELSE LatestThenRest(rows, CHOOSE a \in rows :
                                  \A o \in rows : a.published_age <= o.published_age)

(***************************************************************************)
(* ContentBasedRecommender (content_based.py).  Its methods are operators  *)
(* from the recommender's state st = [stock_profiles, stock_sentiments,    *)
(* stored] and the news table to the state after the call and the result;  *)
(* stored is the committed sentiment_score / sentiment_label column pair   *)
(* of every article (NoneArg for NULL).                                    *)
(***************************************************************************)
\* RECOMMENDATION_CONFIG["min_news_count"].
MinNewsCount == 3

\* The singleton preprocessor is created by get_sentiment_analyzer, the first
\* caller in __init__, so every vectorizer of the recommender gets its
\* settings.
RecommenderPreprocessor == [remove_stopwords |-> FALSE]

NoProfile == <<"none">>

NewRecommenderState ==
    [stock_profiles |-> [c \in CodeSet |-> NoProfile],
     stock_sentiments |-> [c \in CodeSet |-> NoneArg],
     stored |-> [id \in ArticleIds |-> NoneArg]]

\* The sentiment loop of analyze_stock: per news, the stored score and label
\* when there is one, the analyzer's otherwise.
Sentiments(st, news_list) ==
    AsTuple([i \in 1..Len(news_list) |->
                IF st.stored[news_list[i].id] # NoneArg
                THEN st.stored[news_list[i].id]
                ELSE [sentiment_score |-> Analyze(TRUE, news_list[i].text).sentiment_score,
                      sentiment_label |-> Analyze(TRUE, news_list[i].text).sentiment_label]])

\* The store after session.commit() of the loop's assignments.
Committed(stored_before, news_list, sentiments) ==
    [id \in ArticleIds |->
        IF \E i \in 1..Len(news_list) : news_list[i].id = id
        THEN sentiments[CHOOSE i \in 1..Len(news_list) : news_list[i].id = id]
        ELSE stored_before[id]]

NewsTexts(news_list) == AsTuple([i \in 1..Len(news_list) |-> news_list[i].text])

DaysOld(news_list) == AsTuple([i \in 1..Len(news_list) |-> news_list[i].published_age])

\* The dict analyze_stock returns for an analysed stock.
AnalysisResult(stock_code, news_list, sentiment_summary, news_texts) ==
    [kind |-> "ok", stock_code |-> stock_code,
     news_count |-> Len(news_list),
     sentiment |-> sentiment_summary,
     keywords |-> TopKeywords(NewVectorizer(RecommenderPreprocessor),
                              Flatten(news_texts), 10),
     recent_news |-> SubSeq([i \in 1..Len(news_list) |-> news_list[i].id],
                            1, Min2(5, Len(news_list)))]

\* analyze_stock after the commit: the summary, the profile (whose fit may
\* raise), the cache update and the keywords.
AnalyzeCommitted(st, stock_code, news_list, sentiment_summary, news_texts, stored_after) ==
    IF FitRaises(AsTuple([i \in 1..Len(news_texts) |->
                             Preprocess(RecommenderPreprocessor, news_texts[i])]))
    THEN [st |-> [st EXCEPT !.stored = stored_after], result |-> [kind |-> "raised"]]
    ELSE [st |-> [stock_profiles |-> [st.stock_profiles EXCEPT ![stock_code] =
                      BuildProfileFromNews(RecommenderPreprocessor, news_texts,
                          CalculateRecencyWeights(DaysOld(news_list)))],
                  stock_sentiments |-> [st.stock_sentiments EXCEPT ![stock_code] =
                      sentiment_summary],
                  stored |-> stored_after],
          result |-> AnalysisResult(stock_code, news_list, sentiment_summary, news_texts)]

AnalyzeSentiments(st, stock_code, news_list, sentiments, commit_ok) ==
    AnalyzeCommitted(st, stock_code, news_list, GetSentimentSummary(sentiments),
                     NewsTexts(news_list),
                     IF commit_ok THEN Committed(st.stored, news_list, sentiments)
                     ELSE st.stored)

\* analyze_stock from the sentiment loop on, for a news_list that passed the
\* minimum check.  commit_ok tells whether session.commit() succeeds; a failed
\* commit is rolled back and swallowed.  A raise of the profile fit comes
\* after the commit.
AnalyzeNews(st, stock_code, news_list, commit_ok) ==
    AnalyzeSentiments(st, stock_code, news_list, Sentiments(st, news_list), commit_ok)

InsufficientResult(stock_code, news_list) ==
    [kind |-> "warning", stock_code |-> stock_code, news_count |-> Len(news_list),
     sentiment |-> NoneArg, recommendation |-> NoneArg]

\* Variant whose minimum check counts every row of the stock, not only the
\* rows of the window.
CheckMinimum_CountsAllRows(st, n, stock_code, news_list, commit_ok) ==
    IF Cardinality(NewsRows(n, stock_code)) < MinNewsCount
    THEN [st |-> st, result |-> InsufficientResult(stock_code, news_list)]
    ELSE AnalyzeNews(st, stock_code, news_list, commit_ok)

\* The minimum check of analyze_stock on the window's news_list.
CheckMinimum(st, n, stock_code, news_list, commit_ok) ==
    IF Len(news_list) < MinNewsCount
    THEN [st |-> st, result |-> InsufficientResult(stock_code, news_list)]
    ELSE AnalyzeNews(st, stock_code, news_list, commit_ok)

\* analyze_stock(stock_code, days_back): the state after the call and the
\* result: error (no such stock), warning (too few news), ok, or raised.
AnalyzeStock(st, n, stock_code, days_back, commit_ok) ==
    IF stock_code \notin CodeSet
    THEN [st |-> st, result |-> [kind |-> "error"]]
    ELSE CheckMinimum(st, n, stock_code,
                      OrderByPublishedDesc({a \in NewsRows(n, stock_code) :
                                               a.scraped_age <= days_back}),
                      commit_ok)

HasProfile(st, c) == c \in CodeSet /\ st.stock_profiles[c] # NoProfile

\* q[:top_n] for top_n >= 0.
Slice(q, top_n) == SubSeq(q, 1, Min2(top_n, Len(q)))

\* Variant that inserts x before the entries of equal key.
InsertByKey_BeforeEqual(sorted, x) ==
    Slice(sorted, Cardinality({i \in 1..Len(sorted) : sorted[i].key > x.key})) \o <<x>>
    \o SubSeq(sorted, Cardinality({i \in 1..Len(sorted) : sorted[i].key > x.key}) + 1,
              Len(sorted))

\* Insertion of x behind the entries of a descending list whose key is not
\* smaller.
InsertByKey(sorted, x) ==
    Slice(sorted, Cardinality({i \in 1..Len(sorted) : sorted[i].key >= x.key})) \o <<x>>
    \o SubSeq(sorted, Cardinality({i \in 1..Len(sorted) : sorted[i].key >= x.key}) + 1,
              Len(sorted))

\* list.sort(key=..., reverse=True) over records with a key field: stable,
\* descending.
RECURSIVE SortByKeyDesc(_)
SortByKeyDesc(q) ==
    IF q = <<>> THEN <<>>
    ELSE InsertByKey(SortByKeyDesc(SubSeq(q, 1, Len(q) - 1)), q[Len(q)])

\* The items of the entries, sorted by key, cut to top_n.
TopItems(entries, top_n) ==
    Slice(AsTuple([k \in 1..Len(entries) |-> entries[k].item]), top_n)

\* days_back's default in analyze_stock.
DefaultDaysBack == 30

\* analyze_stock(kode) unless the stock has a cached profile.
AnalyzeIfNotCached(st, n, kode, commit_ok) ==
    IF HasProfile(st, kode)
    THEN [st |-> st, result |-> [kind |-> "cached"]]
    ELSE AnalyzeStock(st, n, kode, DefaultDaysBack, commit_ok)

SimilarityEntry(st, kode, similarity) ==
    [key |-> similarity,
     item |-> [stock_code |-> kode, sektor |-> Sektor[kode], similarity |-> similarity,
               sentiment |-> st.stock_sentiments[kode]]]

\* The loop of find_similar_stocks from the i-th stock on; reference_profile
\* is the profile read before the loop.
RECURSIVE SimilarLoop(_, _, _, _, _, _, _, _, _)
\* One pass of the loop for a stock that is not skipped; r is the outcome of
\* its analysis.
SimilarStep(r, n, stock_code, reference_profile, top_n, exclude_same_sector, commit_ok, i, similarities) ==
    IF r.result.kind = "raised" THEN [st |-> r.st, result |-> [kind |-> "raised"]]
    ELSE IF r.result.kind \in {"error", "warning"} \/ ~HasProfile(r.st, Codes[i])
    THEN SimilarLoop(r.st, n, stock_code, reference_profile, top_n, exclude_same_sector,
                     commit_ok, i + 1, similarities)
    ELSE IF Len(reference_profile) # Len(r.st.stock_profiles[Codes[i]])
    THEN [st |-> r.st, result |-> [kind |-> "raised"]]
    ELSE SimilarLoop(r.st, n, stock_code, reference_profile, top_n, exclude_same_sector,
                     commit_ok, i + 1,
                     IF CosineSimilarity(reference_profile,
                                         r.st.stock_profiles[Codes[i]]) > 1000
                     THEN Append(similarities,
                              SimilarityEntry(r.st, Codes[i],
                                  CosineSimilarity(reference_profile,
                                                   r.st.stock_profiles[Codes[i]])))
                     ELSE similarities)

SimilarLoop(st, n, stock_code, reference_profile, top_n, exclude_same_sector, commit_ok, i, similarities) ==
    IF i > Len(Codes)
    THEN [st |-> st,
          result |-> [kind |-> "ok", value |-> TopItems(SortByKeyDesc(similarities), top_n)]]
    ELSE IF \/ Codes[i] = stock_code
            \/ exclude_same_sector /\ Sektor[Codes[i]] = Sektor[stock_code]
    THEN SimilarLoop(st, n, stock_code, reference_profile, top_n, exclude_same_sector,
                     commit_ok, i + 1, similarities)
    ELSE SimilarStep(AnalyzeIfNotCached(st, n, Codes[i], commit_ok), n, stock_code,
                     reference_profile, top_n, exclude_same_sector, commit_ok,
                     i, similarities)

\* find_similar_stocks once the reference stock was looked up; r is the
\* outcome of its analysis.
SimilarToReference(r, n, stock_code, top_n, exclude_same_sector, commit_ok) ==
    IF r.result.kind = "raised" THEN [st |-> r.st, result |-> [kind |-> "raised"]]
    ELSE IF ~HasProfile(r.st, stock_code)
    THEN [st |-> r.st, result |-> [kind |-> "ok", value |-> <<>>]]
    ELSE SimilarLoop(r.st, n, stock_code, r.st.stock_profiles[stock_code], top_n,
                     exclude_same_sector, commit_ok, 1, <<>>)

\* find_similar_stocks(stock_code, top_n, exclude_same_sector).
FindSimilarStocks(st, n, stock_code, top_n, exclude_same_sector, commit_ok) ==
    SimilarToReference(AnalyzeIfNotCached(st, n, stock_code, commit_ok), n, stock_code,
                       top_n, exclude_same_sector, commit_ok)

\* _get_latest_news_age(stock_code) for a stock of the table.
AgeOfFirst(rows) == IF rows = <<>> THEN 999 ELSE Max2(0, rows[1].published_age)

GetLatestNewsAge(n, stock_code) == AgeOfFirst(OrderByPublishedDesc(NewsRows(n, stock_code)))

RecommendationEntry(n, kode, analysis, score_result) ==
    [key |-> score_result.total_score,
     item |-> [stock_code |-> kode, sektor |-> Sektor[kode],
               news_count |-> analysis.news_count,
               sentiment |-> analysis.sentiment,
               score |-> score_result.total_score,
               recommendation |-> score_result.recommendation_label]]

\* The loop of get_recommendations over the queried stocks from the i-th on.
RECURSIVE RecommendLoop(_, _, _, _, _, _, _)
\* One pass of the loop; r is the outcome of the stock's analysis.
RecommendStep(r, n, stocks, top_n, commit_ok, i, recommendations) ==
    IF r.result.kind = "raised" THEN [st |-> r.st, result |-> [kind |-> "raised"]]
    ELSE IF r.result.kind \in {"error", "warning"}
    THEN RecommendLoop(r.st, n, stocks, top_n, commit_ok, i + 1, recommendations)
    ELSE RecommendLoop(r.st, n, stocks, top_n, commit_ok, i + 1,
             Append(recommendations,
                 RecommendationEntry(n, stocks[i], r.result,
                     CalculateScore(BuildScorer(NoneArg, NoneArg, NoneArg, NoneArg),
                                    r.result.sentiment, r.result.news_count,
                                    GetLatestNewsAge(n, stocks[i]), 0))))

RecommendLoop(st, n, stocks, top_n, commit_ok, i, recommendations) ==
    IF i > Len(stocks)
    THEN [st |-> st,
          result |-> [kind |-> "ok",
                      value |-> TopItems(SortByKeyDesc(recommendations), top_n)]]
    ELSE RecommendStep(AnalyzeStock(st, n, stocks[i], DefaultDaysBack, commit_ok),
                       n, stocks, top_n, commit_ok, i, recommendations)

\* get_recommendations(stock_codes, sektor, top_n): stock_codes and sektor are
\* NoneArg or Some(filter); the query keeps table order.
GetRecommendations(st, n, stock_codes, sektor, top_n, commit_ok) ==
    RecommendLoop(st, n,
                  SelectSeq(Codes, LAMBDA c :
                      /\ (stock_codes = NoneArg \/ stock_codes[1] = {} \/ c \in stock_codes[1])
                      /\ (sektor = NoneArg \/ Sektor[c] = sektor[1])),
                  top_n, commit_ok, 1, <<>>)

(***************************************************************************)
(* The recommender specification: news updates and calls of the            *)
(* recommender's methods in any order.  ret records the last call.         *)
(***************************************************************************)
RecState == [stock_profiles |-> stock_profiles, stock_sentiments |-> stock_sentiments,
             stored |-> stored]

NoRet == [op |-> "none"]

InitRecommender ==
    /\ news = InitialNews
    /\ stock_profiles = NewRecommenderState.stock_profiles
    /\ stock_sentiments = NewRecommenderState.stock_sentiments
    /\ stored = NewRecommenderState.stored
    /\ ret = NoRet

\* The state and the recorded call after an operator's outcome r.
Returned(r, op, args) ==
    /\ ret = NoRet
    /\ stock_profiles' = r.st.stock_profiles
    /\ stock_sentiments' = r.st.stock_sentiments
    /\ stored' = r.st.stored
    /\ ret' = [op |-> op, args |-> args, result |-> r.result, before |-> RecState]
    /\ UNCHANGED news
    /\ UNCHANGED NotRec

\* NewsManager.update_news_for_stock(stock_code): the next scraped batch of
\* the stock is stored, with no sentiment yet.
UpdateNewsForStock(stock_code) ==
    /\ ret = NoRet
    /\ news[stock_code] < Len(Batches[stock_code])
    /\ news' = [news EXCEPT ![stock_code] = @ + 1]
    /\ UNCHANGED <<stock_profiles, stock_sentiments, stored, ret>>
    /\ UNCHANGED NotRec

\* The caller takes the result of the last call; calls do not overlap.
Return ==
    /\ ret # NoRet
    /\ ret' = NoRet
    /\ UNCHANGED <<news, stock_profiles, stock_sentiments, stored>>
    /\ UNCHANGED NotRec

CallAnalyzeStock(stock_code, days_back, commit_ok) ==
    Returned(AnalyzeStock(RecState, news, stock_code, days_back, commit_ok),
             "analyze_stock", <<stock_code, days_back, commit_ok>>)

CallFindSimilarStocks(stock_code, top_n, exclude_same_sector, commit_ok) ==
    Returned(FindSimilarStocks(RecState, news, stock_code, top_n, exclude_same_sector,
                               commit_ok),
             "find_similar_stocks", <<stock_code, top_n, exclude_same_sector, commit_ok>>)

CallGetRecommendations(stock_codes, sektor, top_n, commit_ok) ==
    Returned(GetRecommendations(RecState, news, stock_codes, sektor, top_n, commit_ok),
             "get_recommendations", <<stock_codes, sektor, top_n, commit_ok>>)

\* Inputs of the recommender specification.
DaysBack == {7, DefaultDaysBack}
CallCodes == CodeSet \cup {"ZZZZ"}
SimilarTopN == {1, 5}
RecommendTopN == {1, 10}
CodeFilters == {NoneArg, Some({"AAAA", "CCCC"})}
SektorFilters == {NoneArg, Some("Keuangan")}

NextRecommender ==
    \/ Return
    \/ \E c \in CodeSet : UpdateNewsForStock(c)
    \/ \E c \in CallCodes, d \in DaysBack, ok \in BOOLEAN : CallAnalyzeStock(c, d, ok)
    \/ \E c \in CallCodes, t \in SimilarTopN, x \in BOOLEAN, ok \in BOOLEAN :
           CallFindSimilarStocks(c, t, x, ok)
    \/ \E f \in CodeFilters, k \in SektorFilters, t \in RecommendTopN, ok \in BOOLEAN :
           CallGetRecommendations(f, k, t, ok)

(***************************************************************************)
(* Overlapping analyze_stock calls on one recommender, without locks.  The *)
(* callers share self.session, the two caches and profile_builder's        *)
(* vectorizer.  A call proceeds in steps between which the other call may  *)
(* run: the queries and the sentiment loop (lines 56-107), the commit      *)
(* (110-113), the fit half and the transform half of the sklearn           *)
(* vectorizer's fit_transform (vectorizer.py 109, reached from line 123),  *)
(* and the cache update, keywords and return (126-142).  fit_transform     *)
(* counts the documents' terms over the vocabulary it has just built, fits *)
(* the idf vector into the vectorizer object, and then weights its counts  *)
(* by the idf vector it finds in that object.                              *)
(***************************************************************************)
Callers == {1, 2}

Idle == [pc |-> "idle"]

NoPending == [id \in ArticleIds |-> NoneArg]

InitCalls ==
    /\ calls = [t \in Callers |-> Idle]
    /\ session = NoPending
    /\ profile_vectorizer = NoneArg

\* The news query of analyze_stock.
QueryNews(n, stock_code, days_back) ==
    OrderByPublishedDesc({a \in NewsRows(n, stock_code) : a.scraped_age <= days_back})

\* The News attributes as the session's objects show them: a pending
\* assignment, or else the committed value.
SessionView ==
    [id \in ArticleIds |-> IF session[id] # NoneArg THEN session[id] ELSE stored[id]]

\* The session after the sentiment loop assigned the sentiments of the news
\* that had none.
Assigned(view, news_list, sentiments) ==
    [id \in ArticleIds |->
        IF view[id] = NoneArg /\ \E i \in 1..Len(news_list) : news_list[i].id = id
        THEN sentiments[CHOOSE i \in 1..Len(news_list) : news_list[i].id = id]
        ELSE session[id]]

ProcessedTexts(news_list) ==
    AsTuple([i \in 1..Len(news_list) |->
                Preprocess(RecommenderPreprocessor, news_list[i].text)])

\* A call that has returned (or raised).
Done(stock_code, days_back, result) ==
    [pc |-> "done", stock_code |-> stock_code, days_back |-> days_back, result |-> result]

At(w, pc) == [w EXCEPT !.pc = pc]

Analyzed(t, stock_code, days_back, news_list, sentiments) ==
    /\ calls' = [calls EXCEPT ![t] =
                    [pc |-> "analyzed", stock_code |-> stock_code, days_back |-> days_back,
                     news_list |-> news_list, sentiments |-> sentiments]]
    /\ session' = Assigned(SessionView, news_list, sentiments)

BeginQueried(t, stock_code, days_back, news_list) ==
    IF Len(news_list) < MinNewsCount
    THEN /\ calls' = [calls EXCEPT ![t] =
                         Done(stock_code, days_back, InsufficientResult(stock_code, news_list))]
         /\ UNCHANGED session
    ELSE Analyzed(t, stock_code, days_back, news_list,
                  Sentiments([stored |-> SessionView], news_list))

\* Lines 56-107: a caller enters analyze_stock for a stock no other caller is
\* analysing, and runs up to the commit.
Begin(t, stock_code, days_back) ==
    /\ calls[t] = Idle
    /\ \A o \in Callers \ {t} : calls[o] # Idle => calls[o].stock_code # stock_code
    /\ IF stock_code \notin CodeSet
       THEN /\ calls' = [calls EXCEPT ![t] = Done(stock_code, days_back, [kind |-> "error"])]
            /\ UNCHANGED session
       ELSE BeginQueried(t, stock_code, days_back, QueryNews(news, stock_code, days_back))
    /\ UNCHANGED <<news, stored, stock_profiles, stock_sentiments, ret, profile_vectorizer>>
    /\ UNCHANGED NotCalls

\* Lines 110-113: session.commit() writes every pending assignment of the
\* session, whichever call made it; a failed commit is rolled back.
Commit(t, commit_ok) ==
    /\ calls[t].pc = "analyzed"
    /\ stored' = IF commit_ok THEN SessionView ELSE stored
    /\ session' = NoPending
    /\ calls' = [calls EXCEPT ![t] = At(calls[t], "committed")]
    /\ UNCHANGED <<news, stock_profiles, stock_sentiments, ret, profile_vectorizer>>
    /\ UNCHANGED NotCalls

Fitted(t, docs, features) ==
    /\ profile_vectorizer' = [vocabulary |-> features,
                              idf |-> FittedIdf(features, DocGrams(docs))]
    /\ calls' = [calls EXCEPT ![t] = [pc |-> "fitted", stock_code |-> calls[t].stock_code,
                                       days_back |-> calls[t].days_back,
                                       news_list |-> calls[t].news_list,
                                       sentiments |-> calls[t].sentiments,
                                       features |-> features]]

FitDocs(t, docs) ==
    IF FitRaises(docs)
    THEN /\ calls' = [calls EXCEPT ![t] =
                         Done(calls[t].stock_code, calls[t].days_back, [kind |-> "raised"])]
         /\ UNCHANGED profile_vectorizer
    ELSE Fitted(t, docs, SortTerms(FitVocabulary(docs)))

\* The fit half of fit_transform: the vocabulary and the idf vector of the
\* caller's documents are stored in the shared vectorizer; the caller keeps
\* its count matrix, whose columns are its own vocabulary.
FitStep(t) ==
    /\ calls[t].pc = "committed"
    /\ FitDocs(t, ProcessedTexts(calls[t].news_list))
    /\ UNCHANGED <<news, stored, stock_profiles, stock_sentiments, ret, session>>
    /\ UNCHANGED NotCalls

Built(w, profile) ==
    [pc |-> "built", stock_code |-> w.stock_code, days_back |-> w.days_back,
     news_list |-> w.news_list, sentiments |-> w.sentiments, profile |-> profile]

\* The transform half: the caller's counts are weighted by the idf vector
\* the shared vectorizer holds now; a vector of another length is refused
\* with ValueError.  Then build_profile_from_news takes the weighted mean.
TransformStep(t) ==
    /\ calls[t].pc = "fitted"
    /\ calls' = [calls EXCEPT ![t] =
          IF Len(profile_vectorizer.idf) # Len(calls[t].features)
          THEN Done(calls[t].stock_code, calls[t].days_back, [kind |-> "raised"])
          ELSE Built(calls[t],
                     WeightedMean(TfidfRows(ProcessedTexts(calls[t].news_list),
                                            calls[t].features, profile_vectorizer.idf),
                                  CalculateRecencyWeights(DaysOld(calls[t].news_list)),
                                  Len(calls[t].features)))]
    /\ UNCHANGED <<news, stored, stock_profiles, stock_sentiments, ret, session,
                   profile_vectorizer>>
    /\ UNCHANGED NotCalls

\* Lines 126-142: the caches get the call's entries and the call returns.
FinishStep(t) ==
    /\ calls[t].pc = "built"
    /\ stock_profiles' = [stock_profiles EXCEPT ![calls[t].stock_code] = calls[t].profile]
    /\ stock_sentiments' = [stock_sentiments EXCEPT ![calls[t].stock_code] =
                               GetSentimentSummary(calls[t].sentiments)]
    /\ calls' = [calls EXCEPT ![t] =
                    Done(calls[t].stock_code, calls[t].days_back,
                         AnalysisResult(calls[t].stock_code, calls[t].news_list,
                                        GetSentimentSummary(calls[t].sentiments),
                                        NewsTexts(calls[t].news_list)))]
    /\ UNCHANGED <<news, stored, ret, session, profile_vectorizer>>
    /\ UNCHANGED NotCalls

\* News is scraped before the callers start.
ScrapeBeforeCalls(stock_code) ==
    /\ \A t \in Callers : calls[t] = Idle
    /\ UpdateNewsForStock(stock_code)

CallInputs == CallCodes \X DaysBack

NextCalls ==
    \/ \E c \in CodeSet : ScrapeBeforeCalls(c)
    \/ \E t \in Callers, a \in CallInputs : Begin(t, a[1], a[2])
    \/ \E t \in Callers, ok \in BOOLEAN : Commit(t, ok)
    \/ \E t \in Callers : FitStep(t)
    \/ \E t \in Callers : TransformStep(t)
    \/ \E t \in Callers : FinishStep(t)


(***************************************************************************)
(* Calls of SentimentAnalyzer.analyze.  A text is given by the tokens of   *)
(* its cleaned form: every short text over a small vocabulary, and long    *)
(* texts that repeat three phrases.                                        *)
(***************************************************************************)
NoAnalysis == [called |-> FALSE]

InitSentiment == lastAnalysis = NoAnalysis

\* No call of a stateless method is recorded.
NoFnCall == [op |-> "none"]

\* BaseScraper subclasses NewsManager constructs.
ScraperNames == {"kontan", "detik"}

\* No fetch_page call under way.
IdleFetch == [pc |-> "idle", url |-> "", attempt |-> 0, outcomes |-> <<>>, slept |-> <<>>,
              result |-> ""]

\* A module global that holds no instance yet (None).
NoInstance == <<>>

\* preprocessor.py and sentiment.py after import: the singletons are None;
\* SASTRAWI_AVAILABLE tells whether the Sastrawi import succeeded.
ImportedModules(available) ==
    [SASTRAWI_AVAILABLE |-> available,
     preprocessor_instance |-> NoInstance,
     analyzer_instance |-> NoInstance]

InitFetch == fetches = [s \in ScraperNames |-> IdleFetch]

InitEnv == InitFetch /\ nlp_modules = ImportedModules(TRUE)

InitFunctions == lastCall = NoFnCall

\* analyze(None) and analyze(""): `if not text`.
AnalyzeMissing ==
    /\ lastAnalysis = NoAnalysis
    /\ lastAnalysis' = [called |-> TRUE, given |-> FALSE, tokens |-> <<>>,
                        result |-> Analyze(FALSE, <<>>)]
    /\ UNCHANGED NotPure

\* analyze(text) for a non-empty text (its tokens may be none at all, when
\* the text is blanks or punctuation only).
AnalyzeText(tokens) ==
    /\ lastAnalysis = NoAnalysis
    /\ lastAnalysis' = [called |-> TRUE, given |-> TRUE, tokens |-> tokens,
                        result |-> Analyze(TRUE, tokens)]
    /\ UNCHANGED NotPure

\* The caller takes the result; the next text can be analysed.
TakeAnalysis ==
    /\ lastAnalysis # NoAnalysis
    /\ lastAnalysis' = NoAnalysis
    /\ UNCHANGED NotPure

\* clean_text(text).split() for a lower-case text given as its pieces, words
\* and blanks: a token is a maximal run of pieces between blanks.
Blank == " "

RECURSIVE SplitFrom(_, _, _, _)
SplitFrom(text, i, current, tokens) ==
    IF i > Len(text)
    THEN IF current = "" THEN tokens ELSE Append(tokens, current)
    ELSE IF text[i] = Blank
    THEN SplitFrom(text, i + 1, "", IF current = "" THEN tokens ELSE Append(tokens, current))
    ELSE SplitFrom(text, i + 1, current \o text[i], tokens)

Split(text) == SplitFrom(text, 1, "", <<>>)

\* analyze(text) for a text given as pieces; a text of blanks only is still
\* a given text.
AnalyzeRawText(text) ==
    /\ lastAnalysis = NoAnalysis
    /\ lastAnalysis' = [called |-> TRUE, given |-> TRUE, tokens |-> Split(text),
                        result |-> Analyze(TRUE, Split(text))]
    /\ UNCHANGED NotPure

MaxTokens == 3
MaxRepeat == 8
MaxPieces == 5

TextPieces == {"tidak", "ada", "baik", Blank}

RawTexts == SeqsUpTo(TextPieces, MaxPieces) \ {<<>>}

SentimentTokens == {"laba", "naik", "stabil", "rugi", "turun", "gagal",
                    "tidak", "sangat", "pasti", "saham", "baik"}

RECURSIVE Repeat(_, _)
Repeat(phrase, k) ==
    IF k = 0 THEN <<>>
    ELSE IF k = 1 THEN phrase
    ELSE Repeat(phrase, k \div 2) \o Repeat(phrase, k - k \div 2)

ShortTexts == SeqsUpTo(SentimentTokens, MaxTokens)

LongTexts ==
    {Repeat(<<"laba">>, a) \o Repeat(<<"turun">>, b) \o Repeat(<<"sangat", "stabil">>, c) :
        a \in 0..MaxRepeat, b \in 0..MaxRepeat, c \in 0..MaxRepeat}

NextSentiment ==
    \/ TakeAnalysis
    \/ AnalyzeMissing
    \/ \E tokens \in ShortTexts : AnalyzeText(tokens)
    \/ \E tokens \in LongTexts : AnalyzeText(tokens)
    \/ \E text \in RawTexts : AnalyzeRawText(text)

(***************************************************************************)
(* find_similar_stocks over large news tables.  In this database a stock   *)
(* has no news or a corpus of CorpusSize articles, all published today; an *)
(* article's text is one word, or punctuation only (no token at all).      *)
(* Every non-zero row of the TF-IDF matrix is then a unit vector and every *)
(* recency weight is 1 / CorpusSize, so that a profile is the word counts  *)
(* divided by the square of CorpusSize, without rounding.  The sentiment   *)
(* columns of these rows are not tracked: every analysis computes them.    *)
(***************************************************************************)
CorpusSize == 100

\* The words of the corpora, in vocabulary order.
CorpusWords == <<"laba", "naik", "rugi", "turun">>

\* How many articles of a corpus consist of each word; the other articles
\* have no token.
CorpusCounts ==
    ("P" :> <<2, 2, 9, 44>>) @@ ("Q" :> <<14, 50, 2, 2>>) @@
    ("R" :> <<2, 90, 2, 2>>) @@ ("S" :> <<2, 2, 10, 40>>)

CorpusIds == DOMAIN CorpusCounts

NoCorpus == "none"

InitCorpus == corpus = [c \in CodeSet |-> NoCorpus] /\ news_rows = <<>>

\* f"{title} {content or ''}" of the articles of corpus k, as token lists.
CorpusTexts(k) ==
    Flatten([w \in 1..Len(CorpusWords) |->
                Repeat(<< <<CorpusWords[w]>> >>, CorpusCounts[k][w])])
    \o Repeat(<< <<>> >>, CorpusSize - SumSeq(CorpusCounts[k]))

\* The query of analyze_stock (lines 68-71) over the corpus database.
CorpusNews(stock_code, texts) ==
    AsTuple([i \in 1..Len(texts) |-> Article(<<stock_code, i>>, texts[i], 0, 0)])

CorpusRows(db, stock_code) ==
    IF db[stock_code] = NoCorpus THEN <<>>
    ELSE CorpusNews(stock_code, CorpusTexts(db[stock_code]))

\* The sentiment loop for rows without a stored sentiment.
ComputedSentiment(a) ==
    [sentiment_score |-> a.sentiment_score, sentiment_label |-> a.sentiment_label]

ComputedSentiments(news_list) ==
    AsTuple([i \in 1..Len(news_list) |->
                ComputedSentiment(Analyze(TRUE, news_list[i].text))])

\* analyze_stock from the minimum check on, for the rows of a corpus.
AnalyzeCorpusRows(st, stock_code, news_list) ==
    IF Len(news_list) < MinNewsCount
    THEN [st |-> st, result |-> InsufficientResult(stock_code, news_list)]
    ELSE AnalyzeCommitted(st, stock_code, news_list,
                          GetSentimentSummary(ComputedSentiments(news_list)),
                          NewsTexts(news_list), st.stored)

\* analyze_stock(stock_code) over the corpus database db.
AnalyzeCorpusStock(st, db, stock_code) ==
    IF stock_code \notin CodeSet
    THEN [st |-> st, result |-> [kind |-> "error"]]
    ELSE AnalyzeCorpusRows(st, stock_code, CorpusRows(db, stock_code))

\* Every stock that has news has a cached profile: find_similar_stocks then
\* analyses no stock with news, and a stock without news gives a warning.
AllAnalysed == \A c \in CodeSet : corpus[c] # NoCorpus => HasProfile(RecState, c)

InitSimilar ==
    /\ InitScorer
    /\ InitVec
    /\ InitCalls
    /\ InitSentiment
    /\ InitCorpus
    /\ InitFunctions
    /\ InitEnv
    /\ news = [c \in CodeSet |-> 0]
    /\ stock_profiles = NewRecommenderState.stock_profiles
    /\ stock_sentiments = NewRecommenderState.stock_sentiments
    /\ stored = NewRecommenderState.stored
    /\ ret = NoRet

\* The news updates of a stock (NewsManager.update_news_for_stock) have stored
\* corpus k.
StoreCorpus(stock_code, k) ==
    /\ ret = NoRet
    /\ corpus[stock_code] = NoCorpus
    /\ corpus' = [corpus EXCEPT ![stock_code] = k]
    /\ UNCHANGED news_rows
    /\ UNCHANGED NotDb

CallAnalyzeCorpusStock(stock_code) ==
    Returned(AnalyzeCorpusStock(RecState, corpus, stock_code),
             "analyze_stock", <<stock_code>>)

CallFindSimilarAnalysed(stock_code, top_n, exclude_same_sector) ==
    /\ AllAnalysed
    /\ Returned(FindSimilarStocks(RecState, news, stock_code, top_n,
                                  exclude_same_sector, TRUE),
                "find_similar_stocks", <<stock_code, top_n, exclude_same_sector>>)

NextSimilar ==
    \/ Return
    \/ \E c \in CodeSet, k \in CorpusIds : StoreCorpus(c, k)
    \/ \E c \in CallCodes : CallAnalyzeCorpusStock(c)
    \/ \E c \in CallCodes, t \in SimilarTopN, x \in BOOLEAN :
           CallFindSimilarAnalysed(c, t, x)

(***************************************************************************)
(* Calls of methods that keep no state between calls: compare_stocks       *)
(* (scoring.py), json_to_vector and build_profile_from_news                *)
(* (vectorizer.py), _calculate_recency_weights (content_based.py).         *)
(* lastCall records one call; the caller takes the result before the next. *)
(***************************************************************************)
\* args and result are records: [kind |-> "ok", ...] or [kind |-> "raised", ...].
CallOf(op, args, result) ==
    /\ lastCall = NoFnCall
    /\ lastCall' = [op |-> op, args |-> args, result |-> result]
    /\ UNCHANGED NotFn

TakeResult ==
    /\ lastCall # NoFnCall
    /\ lastCall' = NoFnCall
    /\ UNCHANGED NotFn

\* dict.get(key, default).
GetOr(d, key, default) == IF key \in DOMAIN d THEN d[key] ELSE default

\* The dictionary compare_stocks appends for one item of stock_scores.
RankedEntry(code, scores) ==
    [key |-> GetOr(scores, "total_score", 0),
     item |-> [stock_code |-> code,
               total_score |-> GetOr(scores, "total_score", 0),
               recommendation |-> GetOr(scores, "recommendation_label", "Hold"),
               details |-> scores]]

\* The enumerate loop: item["rank"] = i + 1.
WithRank(ranked) ==
    AsTuple([i \in 1..Len(ranked) |->
                [stock_code |-> ranked[i].item.stock_code,
                 total_score |-> ranked[i].item.total_score,
                 recommendation |-> ranked[i].item.recommendation,
                 details |-> ranked[i].item.details,
                 rank |-> i]])

\* compare_stocks(stock_scores); stock_scores is the dict as the sequence of
\* its items [code, scores] in insertion order.
CompareStocks(stock_scores) ==
    WithRank(SortByKeyDesc(AsTuple([i \in 1..Len(stock_scores) |->
                RankedEntry(stock_scores[i].code, stock_scores[i].scores)])))

CallCompareStocks(stock_scores) ==
    CallOf("compare_stocks", [stock_scores |-> stock_scores],
           [kind |-> "ok", value |-> CompareStocks(stock_scores)])

\* Inputs of compare_stocks: dicts of up to MaxEntities stocks whose values
\* are calculate_score results of the default scorer, or a dict without the
\* keys compare_stocks reads.
MaxEntities == 3

CompareCodes == {"AAAA", "BBBB", "CCCC", "DDDD"}

DefaultScore(summary, news_count, recency_days) ==
    CalculateScore(BuildScorer(NoneArg, NoneArg, NoneArg, NoneArg),
                   summary, news_count, recency_days, 0)

CompareScores ==
    {DefaultScore(MkSummary(7000, 8, 1, 1), 25, 0),
     DefaultScore(MkSummary(0, 1, 1, 1), 3, 30),
     DefaultScore(MkSummary(-7000, 1, 7, 2), 20, 2),
     [note |-> "unscored"]}

CompareItems == {[code |-> c, scores |-> r] : c \in CompareCodes, r \in CompareScores}

DistinctKeys(q) == \A i \in 1..Len(q), j \in 1..Len(q) : i # j => q[i].code # q[j].code

CompareInputs == {q \in SeqsUpTo(CompareItems, MaxEntities) : DistinctKeys(q)}

(***************************************************************************)
(* TFIDFVectorizer.json_to_vector.  A JSON text is the sequence of its     *)
(* tokens: punctuation, null, number literals and string literals (written *)
(* with their quotes).  Numbers are in units of 1/10000.                   *)
(***************************************************************************)
\* The number literals used and their values.
NumberValue == ("0.5" :> 5000) @@ ("7" :> 70000)

\* The string literals used and their contents.
StringContent ==
    ("\"0\"" :> "0") @@ ("\"1\"" :> "1") @@ ("\"2\"" :> "2") @@ ("\"5\"" :> "5") @@
    ("\"-1\"" :> "-1") @@ ("\"-4\"" :> "-4") @@ ("\"a\"" :> "a") @@ ("\"1.5\"" :> "1.5")

\* int(idx_str) on these contents: Some(n), or NoneArg when int() raises
\* ValueError.
PyInt ==
    ("0" :> Some(0)) @@ ("1" :> Some(1)) @@ ("2" :> Some(2)) @@ ("5" :> Some(5)) @@
    ("-1" :> Some(-1)) @@ ("-4" :> Some(-4)) @@ ("a" :> NoneArg) @@ ("1.5" :> NoneArg)

\* float(s), which numpy applies to a string stored into a float array.
PyFloat ==
    ("0" :> Some(0)) @@ ("1" :> Some(10000)) @@ ("2" :> Some(20000)) @@
    ("5" :> Some(50000)) @@ ("-1" :> Some(-10000)) @@ ("-4" :> Some(-40000)) @@
    ("a" :> NoneArg) @@ ("1.5" :> Some(15000))

JsonFail == [ok |-> FALSE]

JsonOk(value, rest) == [ok |-> TRUE, value |-> value, rest |-> rest]

\* json.loads as a recursive-descent parse: a value, then nothing else.
RECURSIVE ParseValue(_), ParseElements(_, _), ParseMembers(_, _)
\* After an element of an array: "," and more elements, or "]".
AfterElement(r, acc) ==
    IF ~r.ok \/ r.rest = <<>> THEN JsonFail
    ELSE IF Head(r.rest) = "," THEN ParseElements(Tail(r.rest), Append(acc, r.value))
    ELSE IF Head(r.rest) = "]"
    THEN JsonOk([type |-> "array", items |-> Append(acc, r.value)], Tail(r.rest))
    ELSE JsonFail

ParseElements(t, acc) == AfterElement(ParseValue(t), acc)

\* After a member's value: "," and more members, or "}".
AfterMember(key, r, acc) ==
    IF ~r.ok \/ r.rest = <<>> THEN JsonFail
    ELSE IF Head(r.rest) = ","
    THEN ParseMembers(Tail(r.rest), Append(acc, [key |-> key, value |-> r.value]))
    ELSE IF Head(r.rest) = "}"
    THEN JsonOk([type |-> "object",
                 pairs |-> Append(acc, [key |-> key, value |-> r.value])], Tail(r.rest))
    ELSE JsonFail

\* A member: a string literal, ":", a value.
ParseMembers(t, acc) ==
    IF Len(t) < 2 \/ t[1] \notin DOMAIN StringContent \/ t[2] # ":" THEN JsonFail
    ELSE AfterMember(StringContent[t[1]], ParseValue(SubSeq(t, 3, Len(t))), acc)

ParseValue(t) ==
    IF t = <<>> THEN JsonFail
    ELSE IF Head(t) \in DOMAIN NumberValue
    THEN JsonOk([type |-> "number", v |-> NumberValue[Head(t)]], Tail(t))
    ELSE IF Head(t) \in DOMAIN StringContent
    THEN JsonOk([type |-> "string", s |-> StringContent[Head(t)]], Tail(t))
    ELSE IF Head(t) = "null" THEN JsonOk([type |-> "null"], Tail(t))
    ELSE IF Head(t) = "[" /\ Len(t) >= 2 /\ t[2] = "]"
    THEN JsonOk([type |-> "array", items |-> <<>>], SubSeq(t, 3, Len(t)))
    ELSE IF Head(t) = "[" THEN ParseElements(Tail(t), <<>>)
    ELSE IF Head(t) = "{" /\ Len(t) >= 2 /\ t[2] = "}"
    THEN JsonOk([type |-> "object", pairs |-> <<>>], SubSeq(t, 3, Len(t)))
    ELSE IF Head(t) = "{" THEN ParseMembers(Tail(t), <<>>)
    ELSE JsonFail

ParsedWhole(r) == IF r.ok /\ r.rest = <<>> THEN [ok |-> TRUE, value |-> r.value] ELSE JsonFail

JsonLoads(t) == ParsedWhole(ParseValue(t))

\* The dict of an object's members: a repeated key keeps its first place and
\* its last value.
LastValue(pairs, key) ==
    pairs[CHOOSE i \in 1..Len(pairs) :
              /\ pairs[i].key = key
              /\ \A j \in (i + 1)..Len(pairs) : pairs[j].key # key].value

RECURSIVE DictItemsFrom(_, _, _)
DictItemsFrom(pairs, i, acc) ==
    IF i > Len(pairs) THEN acc
    ELSE IF \E j \in 1..(i - 1) : pairs[j].key = pairs[i].key
    THEN DictItemsFrom(pairs, i + 1, acc)
    ELSE DictItemsFrom(pairs, i + 1,
             Append(acc, [key |-> pairs[i].key, value |-> LastValue(pairs, pairs[i].key)]))

DictItems(pairs) == DictItemsFrom(pairs, 1, <<>>)

Raised(error) == [kind |-> "raised", error |-> error]

\* vector[idx] = value on a float array of the given size, for idx < size:
\* a negative idx counts from the end, and IndexError below -size; a string
\* is converted with float().
RECURSIVE AssignLoop(_, _, _, _)
SetItem(items, i, vector, size, idx, number) ==
    IF idx < -size THEN Raised("IndexError")
    ELSE IF number = NoneArg THEN Raised("ValueError")
    ELSE AssignLoop(items, i + 1,
                    [vector EXCEPT ![IF idx >= 0 THEN idx + 1 ELSE size + idx + 1] = number[1]],
                    size)

AsFloat(value) ==
    IF value.type = "number" THEN Some(value.v)
    ELSE IF value.type = "string" THEN PyFloat[value.s]
    ELSE NoneArg

\* One pass of the loop over sparse_dict.items().
AssignStep(items, i, vector, size, idx) ==
    IF idx = NoneArg THEN Raised("ValueError")
    ELSE IF ~(idx[1] < size) THEN AssignLoop(items, i + 1, vector, size)
    ELSE IF items[i].value.type \in {"null", "object"} /\ idx[1] >= -size
    THEN Raised("TypeError")
    ELSE SetItem(items, i, vector, size, idx[1], AsFloat(items[i].value))

AssignLoop(items, i, vector, size) ==
    IF i > Len(items) THEN [kind |-> "ok", vector |-> vector]
    ELSE AssignStep(items, i, vector, size, PyInt[items[i].key])

\* json_to_vector from json.loads on, with the zero vector already made.
LoadInto(parsed, size) ==
    IF ~parsed.ok THEN Raised("JSONDecodeError")
    ELSE IF parsed.value.type # "object" THEN Raised("AttributeError")
    ELSE AssignLoop(DictItems(parsed.value.pairs), 1, AsTuple([k \in 1..size |-> 0]), size)

\* size = size or self.max_features.
SizeOr(size, max_features) ==
    IF size = NoneArg \/ size[1] = 0 THEN max_features ELSE size[1]

\* json_to_vector once size is settled; np.zeros raises ValueError for a
\* negative size.
JsonToVectorSized(json_str, size) ==
    IF size < 0 THEN Raised("ValueError")
    ELSE LoadInto(JsonLoads(json_str), size)

\* TFIDFVectorizer(max_features).json_to_vector(json_str, size); size is
\* NoneArg or Some(n).
JsonToVector(max_features, json_str, size) ==
    JsonToVectorSized(json_str, SizeOr(size, max_features))

\* The vectorizer of these calls is TFIDFVectorizer(max_features=4).
JsonMaxFeatures == 4

CallJsonToVector(json_str, size) ==
    CallOf("json_to_vector", [json_str |-> json_str, size |-> size],
           JsonToVector(JsonMaxFeatures, json_str, size))

\* Inputs: every token sequence of up to MaxJsonTokens tokens over a small
\* alphabet, and the serialized objects of up to MaxPairs members.
MaxJsonTokens == 3
MaxPairs == 2

ShortJsonAlphabet == {"{", "}", "[", "]", ":", ",", "null", "0.5", "\"0\"", "\"a\""}

ShortJson == SeqsUpTo(ShortJsonAlphabet, MaxJsonTokens)

MemberKeys == DOMAIN StringContent

MemberValues == {"0.5", "7", "\"a\"", "\"1.5\""}

RECURSIVE SerializeFrom(_, _)
SerializeFrom(members, i) ==
    IF i > Len(members) THEN <<"}">>
    ELSE (IF i > 1 THEN <<",">> ELSE <<>>)
         \o <<members[i][1], ":", members[i][2]>> \o SerializeFrom(members, i + 1)

\* The text of an object with the given members.
Serialize(members) == <<"{">> \o SerializeFrom(members, 1)

ObjectJson == {Serialize(m) : m \in SeqsUpTo(MemberKeys \X MemberValues, MaxPairs)}

JsonSizes == {NoneArg, Some(0), Some(1), Some(3)}

(***************************************************************************)
(* StockProfileBuilder.build_profile_from_news.  vec is the builder's      *)
(* vectorizer, TFIDFVectorizer() with the configured max_features.         *)
(***************************************************************************)
\* NLP_CONFIG["max_features_tfidf"].
MaxFeaturesTfidf == 5000

\* np.zeros(n).
Zeros(n) == AsTuple([k \in 1..n |-> 0])

\* The factor of each of the n rows: none for weights None or [] (`if
\* weights`), the one weight for a list of one (numpy broadcasts it), else
\* the row's weight.
RowWeights(weights, n) ==
    IF weights = NoneArg \/ weights[1] = <<>> THEN AsTuple([i \in 1..n |-> 10000])
    ELSE IF Len(weights[1]) = 1 THEN AsTuple([i \in 1..n |-> weights[1][1]])
    ELSE weights[1]

\* build_profile_from_news after fit_transform; fitted is the vectorizer it
\* left.  Weights of another length than the rows cannot be broadcast.
BuildFitted(fitted, docs, weights) ==
    IF weights # NoneArg /\ Len(weights[1]) \notin {0, 1, Len(docs)}
    THEN [vectorizer |-> fitted, result |-> Raised("ValueError")]
    ELSE [vectorizer |-> fitted,
          result |-> [kind |-> "ok",
                      profile |-> ProfileOfProcessed(docs, RowWeights(weights, Len(docs)))]]

\* Variant that marks the vectorizer fitted for an empty list as well.
BuildProfileOn_FitsOnEmpty(v, news_texts, weights) ==
    IF news_texts = <<>>
    THEN [vectorizer |-> [v EXCEPT !.is_fitted = TRUE],
          result |-> [kind |-> "ok", profile |-> Zeros(MaxFeaturesTfidf)]]
    ELSE IF FitRaises(ProcessAll(v, news_texts))
    THEN [vectorizer |-> v, result |-> Raised("ValueError")]
    ELSE BuildFitted(FitState(v, news_texts), AsTuple(ProcessAll(v, news_texts)), weights)

\* build_profile_from_news(news_texts, weights) on a builder whose
\* vectorizer is v: the vectorizer after the call and the outcome.
BuildProfileOn(v, news_texts, weights) ==
    IF news_texts = <<>>
    THEN [vectorizer |-> v, result |-> [kind |-> "ok", profile |-> Zeros(MaxFeaturesTfidf)]]
    ELSE IF FitRaises(ProcessAll(v, news_texts))
    THEN [vectorizer |-> v, result |-> Raised("ValueError")]
    ELSE BuildFitted(FitState(v, news_texts), AsTuple(ProcessAll(v, news_texts)), weights)

ProfileBuilt(r, news_texts, weights) ==
    /\ vec' = r.vectorizer
    /\ lastCall' = [op |-> "build_profile_from_news",
                    args |-> [news_texts |-> news_texts, weights |-> weights, vectorizer |-> vec],
                    result |-> r.result]
    /\ UNCHANGED <<scorerVars, vecCall, fitCompleted, recVars, callVars, pureVars, dbVars, envVars>>

CallBuildProfileFromNews(news_texts, weights) ==
    /\ lastCall = NoFnCall
    /\ ProfileBuilt(BuildProfileOn(vec, news_texts, weights), news_texts, weights)

\* The weights lists passed, in units of 1/10000.
ProfileWeights ==
    {NoneArg, Some(<<>>), Some(<<10000>>), Some(<<5000, 5000>>), Some(<<6000, 3000, 1000>>)}

(***************************************************************************)
(* ContentBasedRecommender._calculate_recency_weights.  A News row is      *)
(* given by its ages in days: published_age is NoneArg for a row without   *)
(* published_date, and -1 for a date a few hours ahead of utcnow().        *)
(***************************************************************************)
\* Variant that always takes the age from scraped_at.
DaysOldOf_ScrapedAt(row) == row.scraped_age

\* days_old of the loop: from published_date if there is one, else from
\* scraped_at.
DaysOldOf(row) ==
    IF row.published_age # NoneArg THEN row.published_age[1] ELSE row.scraped_age

\* _calculate_recency_weights(news_list).
RecencyWeightsOf(news_list) ==
    IF news_list = <<>> THEN <<>>
    ELSE CalculateRecencyWeights(AsTuple([i \in 1..Len(news_list) |-> DaysOldOf(news_list[i])]))

CallCalculateRecencyWeights(news_list) ==
    CallOf("_calculate_recency_weights", [news_list |-> news_list],
           [kind |-> "ok", value |-> RecencyWeightsOf(news_list)])

\* Inputs: batches of up to MaxRecords rows.
MaxRecords == 3

PublishedAges == {NoneArg, Some(-1), Some(0), Some(30), Some(69), Some(70)}

ScrapedAges == {0, 100}

RecencyRows == {[published_age |-> p, scraped_age |-> a] : p \in PublishedAges, a \in ScrapedAges}

RecencyBatches == SeqsUpTo(RecencyRows, MaxRecords)

(***************************************************************************)
(* TFIDFVectorizer.get_top_keywords with its result as a list.             *)
(***************************************************************************)
IndexOrders(n) == {p \in [1..n -> 1..n] : \A i, j \in 1..n : i # j => p[i] # p[j]}

\* The orders vector.argsort() can return: ascending by weight.  The default
\* kind, quicksort, is not stable, so equal weights come in any order.
ArgSorts(vector) ==
    {p \in IndexOrders(Len(vector)) :
        \A i \in 1..(Len(vector) - 1) : vector[p[i]] <= vector[p[i + 1]]}

\* argsort()[-top_n:][::-1]: the last top_n indices, the last one first.
\* [-0:] is [0:], the whole array.
TopIndices(sorted, top_n) ==
    LET kept == IF top_n = 0 \/ top_n >= Len(sorted) THEN sorted
                ELSE SubSeq(sorted, Len(sorted) - top_n + 1, Len(sorted))
    IN  AsTuple([i \in 1..Len(kept) |-> kept[Len(kept) + 1 - i]])

\* The loop over top_indices: (feature_names[idx], vector[idx]) where
\* vector[idx] > 0.
KeywordsAt(feature_names, vector, top_indices) ==
    LET positive == SelectSeq(top_indices, LAMBDA idx : vector[idx] > 0)
    IN  AsTuple([i \in 1..Len(positive) |->
                    [term |-> feature_names[positive[i]], weight |-> vector[positive[i]]]])

\* simple_vectorizer.fit_transform([processed_text]).toarray()[0]: one
\* document, min_df=1, max_df=1.0, no sublinear tf: every idf is 1 and the
\* row is the L2-normalised term counts, in units of 1/10000.
SingleDocVector(feature_names, processed) ==
    NormalizeRow(AsTuple([k \in 1..Len(feature_names) |->
                             1000 * TermCount(feature_names[k], processed)]))

\* get_top_keywords after preprocessing, for one argsort order.
KeywordsOfProcessed(processed, top_n, sorted) ==
    KeywordsAt(SortTerms(Ngrams(processed)),
               SingleDocVector(SortTerms(Ngrams(processed)), processed),
               TopIndices(sorted, top_n))

\* The argsort orders of the text's vector.
KeywordOrders(processed) ==
    ArgSorts(SingleDocVector(SortTerms(Ngrams(processed)), processed))

\* vec.get_top_keywords(text, top_n), its result recorded as a list.
CallGetTopKeywords(text, top_n) ==
    IF Preprocess(vec.preprocessor, text) = <<>>
    THEN CallOf("get_top_keywords", [text |-> text, top_n |-> top_n],
                [kind |-> "ok", value |-> <<>>])
    ELSE \E sorted \in KeywordOrders(Preprocess(vec.preprocessor, text)) :
            CallOf("get_top_keywords", [text |-> text, top_n |-> top_n],
                   [kind |-> "ok",
                    value |-> KeywordsOfProcessed(Preprocess(vec.preprocessor, text),
                                                  top_n, sorted)])

KeywordTexts == VecTexts \cup {<<>>, <<"laba", "laba", "naik">>, <<"akan", "rugi">>}

(***************************************************************************)
(* ContentBasedRecommender._cosine_similarity on any two arguments: a      *)
(* vector is NoneArg or Some(entries), entries in units of 1/10000.        *)
(***************************************************************************)
\* np.dot of two 1-d arrays raises ValueError when their lengths differ,
\* before any norm is looked at.
CosineSimilarityOf(vec1, vec2) ==
    IF vec1 = NoneArg \/ vec2 = NoneArg THEN [kind |-> "ok", value |-> 0]
    ELSE IF Len(vec1[1]) # Len(vec2[1]) THEN Raised("ValueError")
    ELSE [kind |-> "ok", value |-> CosineSimilarity(vec1[1], vec2[1])]

CallCosineSimilarity(vec1, vec2) ==
    CallOf("_cosine_similarity", [vec1 |-> vec1, vec2 |-> vec2], CosineSimilarityOf(vec1, vec2))

\* Inputs: no vector, and vectors of up to MaxDim entries.
MaxDim == 3

CosineEntries == {0, 3000, 4000}

CosineVectors == {NoneArg} \cup {Some(q) : q \in SeqsUpTo(CosineEntries, MaxDim)}

\* A call is possible when none is recorded; the guard comes first so that
\* the inputs are enumerated only then.
CanCall == lastCall = NoFnCall

NextFunctions ==
    \/ TakeResult
    \/ CanCall /\ \E q \in CompareInputs : CallCompareStocks(q)
    \/ CanCall /\ \E t \in ShortJson, n \in JsonSizes : CallJsonToVector(t, n)
    \/ CanCall /\ \E t \in ObjectJson, n \in JsonSizes : CallJsonToVector(t, n)
    \/ CanCall /\ \E q \in RecencyBatches : CallCalculateRecencyWeights(q)
    \/ CanCall /\ \E t \in KeywordTexts, n \in 0..(MaxTopN + 1) : CallGetTopKeywords(t, n)
    \/ CanCall /\ \E a \in CosineVectors, b \in CosineVectors : CallCosineSimilarity(a, b)

\* Calls on one StockProfileBuilder.
NextBuilder ==
    \/ TakeResult
    \/ CanCall /\ \E c \in Corpora, w \in ProfileWeights : CallBuildProfileFromNews(c, w)

(***************************************************************************)
(* NewsManager.update_news_for_stock (news_manager.py).  A row of the News *)
(* table is given by its url; the session is made with autoflush=False     *)
(* (database.py), so a query sees the committed rows only.                 *)
(***************************************************************************)
\* self.scrapers without NewsAPI: Kontan and Detik.
ScraperCount == 2

\* search_keywords: the stock code and the first words of the company name.
KeywordCount == 2

NewStats == [total_found |-> 0, new_saved |-> 0, duplicates |-> 0, errors |-> 0]

\* One article of the inner loop.  content is what get_article_content
\* does: "ok", "none" (returns None) or "raise".
ArticleStep(rows, st, article) ==
    IF article.url \in ToSet(rows)
    THEN [st EXCEPT !.stats.duplicates = @ + 1]
    ELSE IF article.content = "raise" THEN [st EXCEPT !.raised = TRUE]
    ELSE IF article.content = "none" THEN st
    ELSE [st EXCEPT !.pending = Append(@, article.url), !.stats.new_saved = @ + 1]

\* `for article in articles`, left by an exception.
RECURSIVE ArticleLoop(_, _, _, _)
ArticleLoop(rows, st, articles, i) ==
    IF i > Len(articles) \/ st.raised THEN st
    ELSE ArticleLoop(rows, ArticleStep(rows, st, articles[i]), articles, i + 1)

\* `except Exception`: errors += 1, and on to the next keyword.
Caught(st) ==
    IF st.raised THEN [st EXCEPT !.raised = FALSE, !.stats.errors = @ + 1] ELSE st

\* The try block for one keyword of one scraper; found is what search_news
\* does: [raised |-> TRUE] or the articles it returns.
KeywordStep(rows, st, found) ==
    IF found.raised THEN Caught([st EXCEPT !.raised = TRUE])
    ELSE Caught(ArticleLoop(rows,
                            [st EXCEPT !.stats.total_found = @ + Len(found.articles)],
                            found.articles, 1))

\* Both loops: results[k] is the search result of scraper (k - 1) \div
\* KeywordCount and keyword (k - 1) % KeywordCount.
RECURSIVE ScrapeLoop(_, _, _, _)
ScrapeLoop(rows, st, results, k) ==
    IF k > Len(results) THEN st
    ELSE ScrapeLoop(rows, KeywordStep(rows, st, results[k]), results, k + 1)

NoDuplicates(q) == \A i \in 1..Len(q), j \in 1..Len(q) : i # j => q[i] # q[j]

\* session.commit() flushes the pending rows: the INSERTs fail on the unique
\* constraint of News.url (IntegrityError), or for a reason of the
\* database's (commit_ok false).
FlushFails(rows, pending, commit_ok) ==
    \/ ~commit_ok
    \/ ~NoDuplicates(pending)
    \/ ToSet(pending) \cap ToSet(rows) # {}

\* The commit at the end: on failure rollback() and errors += 1.
CommitUpdate(rows, st, commit_ok) ==
    IF FlushFails(rows, st.pending, commit_ok)
    THEN [rows |-> rows, stats |-> [st.stats EXCEPT !.errors = @ + 1]]
    ELSE [rows |-> rows \o st.pending, stats |-> st.stats]

\* update_news_for_stock(stock_code): the table and the stats it returns.
UpdateNews(rows, stock_code, results, commit_ok) ==
    IF stock_code \notin CodeSet THEN [rows |-> rows, stats |-> NewStats]
    ELSE CommitUpdate(rows,
                          ScrapeLoop(rows, [pending |-> <<>>, stats |-> NewStats, raised |-> FALSE],
                                     results, 1),
                          commit_ok)

Updated(r, stock_code, results, commit_ok) ==
    /\ news_rows' = r.rows
    /\ lastCall' = [op |-> "update_news_for_stock",
                    args |-> [stock_code |-> stock_code, results |-> results,
                              commit_ok |-> commit_ok, rows |-> news_rows],
                    result |-> [kind |-> "ok", value |-> r.stats]]
    /\ UNCHANGED <<scorerVars, vecVars, recVars, callVars, pureVars, corpus, envVars>>

CallUpdateNewsForStock(stock_code, results, commit_ok) ==
    Updated(UpdateNews(news_rows, stock_code, results, commit_ok), stock_code, results, commit_ok)

\* Inputs: up to MaxArticles articles per search.
MaxArticles == 1

Urls == {"u1", "u2"}

Articles == {[url |-> u, content |-> c] : u \in Urls, c \in {"ok", "none", "raise"}}

SearchResults ==
    {[raised |-> TRUE, articles |-> <<>>]}
    \cup {[raised |-> FALSE, articles |-> q] : q \in SeqsUpTo(Articles, MaxArticles)}

ScrapeResults == [1..(ScraperCount * KeywordCount) -> SearchResults]

UpdateCodes == {"AAAA", "ZZZZ"}

NextNews ==
    \/ TakeResult
    \/ CanCall /\ \E c \in UpdateCodes, r \in ScrapeResults, ok \in BOOLEAN :
                      CallUpdateNewsForStock(c, r, ok)

(***************************************************************************)
(* BaseScraper.fetch_page (base_scraper.py).  Every GET is one step; its   *)
(* outcome is the network's.  outcomes is the list of the GETs' outcomes   *)
(* and slept the list of the time.sleep arguments of the call.             *)
(***************************************************************************)
\* SCRAPER_CONFIG["max_retries"] and ["delay_between_requests"].
MaxRetries == 3
DelayBetweenRequests == 2

\* Variant that also sleeps after the last failed attempt.
AfterGet_SleepsAfterLast(f, ok) ==
    IF ok
    THEN [f EXCEPT !.outcomes = Append(@, "ok"), !.slept = Append(@, DelayBetweenRequests),
                   !.pc = "done", !.result = "soup"]
    ELSE IF f.attempt < MaxRetries - 1
    THEN [f EXCEPT !.outcomes = Append(@, "failed"),
                   !.slept = Append(@, DelayBetweenRequests * 2),
                   !.attempt = @ + 1]
    ELSE [f EXCEPT !.outcomes = Append(@, "failed"),
                   !.slept = Append(@, DelayBetweenRequests * 2),
                   !.pc = "done", !.result = "None"]

\* One iteration of `for attempt in range(self.max_retries)`: the GET
\* succeeds (parse, sleep(delay), return soup) or raises RequestException
\* (sleep(delay * 2) unless it was the last attempt; after the last one the
\* loop ends and None is returned).
AfterGet(f, ok) ==
    IF ok
    THEN [f EXCEPT !.outcomes = Append(@, "ok"), !.slept = Append(@, DelayBetweenRequests),
                   !.pc = "done", !.result = "soup"]
    ELSE IF f.attempt < MaxRetries - 1
    THEN [f EXCEPT !.outcomes = Append(@, "failed"),
                   !.slept = Append(@, DelayBetweenRequests * 2),
                   !.attempt = @ + 1]
    ELSE [f EXCEPT !.outcomes = Append(@, "failed"), !.pc = "done", !.result = "None"]

\* scraper.fetch_page(url) is called: the loop is entered, or, for an empty
\* range, None is returned at once.
FetchPage(s, url) ==
    /\ fetches[s].pc = "idle"
    /\ fetches' = [fetches EXCEPT ![s] =
                      IF MaxRetries <= 0
                      THEN [IdleFetch EXCEPT !.url = url, !.pc = "done", !.result = "None"]
                      ELSE [IdleFetch EXCEPT !.url = url, !.pc = "get"]]
    /\ UNCHANGED nlp_modules
    /\ UNCHANGED NotEnv

\* self.session.get(url, timeout=self.timeout) returns or raises.
Get(s, ok) ==
    /\ fetches[s].pc = "get"
    /\ fetches' = [fetches EXCEPT ![s] = AfterGet(@, ok)]
    /\ UNCHANGED nlp_modules
    /\ UNCHANGED NotEnv

\* The caller takes fetch_page's result.
TakePage(s) ==
    /\ fetches[s].pc = "done"
    /\ fetches' = [fetches EXCEPT ![s] = IdleFetch]
    /\ UNCHANGED nlp_modules
    /\ UNCHANGED NotEnv

FetchUrls == {"u1", "u2"}

NextFetch ==
    \/ \E s \in ScraperNames, u \in FetchUrls : FetchPage(s, u)
    \/ \E s \in ScraperNames, ok \in BOOLEAN : Get(s, ok)
    \/ \E s \in ScraperNames : TakePage(s)

\* Every GET has a timeout, so a started attempt ends: the loop of each
\* scraper keeps taking steps.
FetchFairness == \A s \in ScraperNames : WF_vars(\E ok \in BOOLEAN : Get(s, ok))

(***************************************************************************)
(* The singletons of preprocessor.py and sentiment.py, and the             *)
(* constructors that use them.  A TextPreprocessor is given by its         *)
(* settings.                                                               *)
(***************************************************************************)
\* TextPreprocessor.__init__(use_stemming, remove_stopwords).
TextPreprocessor(mod, use_stemming, remove_stopwords) ==
    [use_stemming |-> use_stemming /\ mod.SASTRAWI_AVAILABLE,
     remove_stopwords |-> remove_stopwords]

\* get_preprocessor(use_stemming, remove_stopwords): the modules after the
\* call; the call returns their preprocessor_instance.
GetPreprocessor(mod, use_stemming, remove_stopwords) ==
    IF mod.preprocessor_instance = NoInstance
    THEN [mod EXCEPT !.preprocessor_instance =
                         Some(TextPreprocessor(mod, use_stemming, remove_stopwords))]
    ELSE mod

\* SentimentAnalyzer.__init__: get_preprocessor(use_stemming=False,
\* remove_stopwords=False).
NewSentimentAnalyzer(mod) == GetPreprocessor(mod, FALSE, FALSE)

\* get_sentiment_analyzer(): the analyzer singleton is created on the first
\* call.
GetSentimentAnalyzer(mod) ==
    IF mod.analyzer_instance = NoInstance
    THEN [NewSentimentAnalyzer(mod) EXCEPT !.analyzer_instance =
             Some([preprocessor |-> NewSentimentAnalyzer(mod).preprocessor_instance[1]])]
    ELSE mod

\* TFIDFVectorizer.__init__: get_preprocessor(use_stemming=True,
\* remove_stopwords=True).
NewTfidfVectorizer(mod) == GetPreprocessor(mod, TRUE, TRUE)

\* ContentBasedRecommender.__init__: get_sentiment_analyzer(), then
\* TFIDFVectorizer(), then StockProfileBuilder(), which makes another
\* TFIDFVectorizer.
NewRecommender(mod) == NewTfidfVectorizer(NewTfidfVectorizer(GetSentimentAnalyzer(mod)))

\* A call that may change the modules; its result is the preprocessor that
\* the call returns or that the object it makes holds.
ModuleCall(op, args, mod) ==
    /\ lastCall' = [op |-> op, args |-> args,
                    result |-> [kind |-> "ok", value |-> mod.preprocessor_instance[1]]]
    /\ nlp_modules' = mod
    /\ UNCHANGED fetches
    /\ UNCHANGED <<scorerVars, vecVars, recVars, callVars, pureVars, dbVars>>

CallGetPreprocessor(use_stemming, remove_stopwords) ==
    ModuleCall("get_preprocessor",
               [use_stemming |-> use_stemming, remove_stopwords |-> remove_stopwords],
               GetPreprocessor(nlp_modules, use_stemming, remove_stopwords))

NoArgs == [none |-> TRUE]

CallSentimentAnalyzer == ModuleCall("SentimentAnalyzer", NoArgs, NewSentimentAnalyzer(nlp_modules))

CallGetSentimentAnalyzer ==
    ModuleCall("get_sentiment_analyzer", NoArgs, GetSentimentAnalyzer(nlp_modules))

CallTfidfVectorizer == ModuleCall("TFIDFVectorizer", NoArgs, NewTfidfVectorizer(nlp_modules))

CallContentBasedRecommender ==
    ModuleCall("ContentBasedRecommender", NoArgs, NewRecommender(nlp_modules))

\* preprocess(text) on the preprocessor the last call returned.
PreprocessReturned(text) ==
    /\ lastCall # NoFnCall
    /\ lastCall.op # "preprocess"
    /\ lastCall' = [op |-> "preprocess",
                    args |-> [text |-> text, preprocessor |-> lastCall.result.value],
                    result |-> [kind |-> "ok",
                                value |-> Preprocess(lastCall.result.value, text)]]
    /\ UNCHANGED NotFn

\* The interpreter starts with the modules imported, with or without
\* Sastrawi installed.
InitModules ==
    /\ InitScorer
    /\ InitVec
    /\ InitRecommender
    /\ InitCalls
    /\ InitSentiment
    /\ InitCorpus
    /\ InitFunctions
    /\ InitFetch
    /\ \E available \in BOOLEAN : nlp_modules = ImportedModules(available)

NextModules ==
    \/ TakeResult
    \/ CanCall /\ \E st \in BOOLEAN, sw \in BOOLEAN : CallGetPreprocessor(st, sw)
    \/ CanCall /\ CallSentimentAnalyzer
    \/ CanCall /\ CallGetSentimentAnalyzer
    \/ CanCall /\ CallTfidfVectorizer
    \/ CanCall /\ CallContentBasedRecommender
    \/ \E t \in VecTexts : PreprocessReturned(t)

(***************************************************************************)
(* Specifications                                                          *)
(***************************************************************************)
Init ==
    /\ InitScorer
    /\ InitVec
    /\ InitRecommender
    /\ InitCalls
    /\ InitSentiment
    /\ InitCorpus
    /\ InitFunctions
    /\ InitEnv

SpecVec == Init /\ [][NextVec]_vars

Spec == Init /\ [][NextRecommender]_vars

SpecCalls == Init /\ [][NextCalls]_vars

SpecSentiment == Init /\ [][NextSentiment]_vars

SpecSimilar == InitSimilar /\ [][NextSimilar]_vars

SpecFunctions == Init /\ [][NextFunctions]_vars

SpecBuilder == Init /\ [][NextBuilder]_vars

SpecNews == Init /\ [][NextNews]_vars

SpecModules == InitModules /\ [][NextModules]_vars

SpecFetch == Init /\ [][NextFetch]_vars /\ FetchFairness

\* Construction only: every argument tuple, and its multiples.
NextWeights ==
    \/ \E a1 \in RawWeights, a2 \in RawWeights, a3 \in RawWeights, a4 \in RawWeights :
          NewScorer(a1, a2, a3, a4)
    \/ \E k \in 2..MaxScale : NewScaled(k)

SpecWeights == Init /\ [][NextWeights]_vars

\* Scoring: a few scorers, every input.
NextScorer ==
    \/ \E a \in ScoreArgs : NewScorer(a[1], a[2], a[3], a[4])
    \/ /\ CanScore
       /\ \E s \in Summaries, n \in NewsCounts, d \in RecencyDays, m \in Similarities :
             Score(s, n, d, m)

SpecScorer == Init /\ [][NextScorer]_vars

(***************************************************************************)
(* C1: label decision table                                                *)
(***************************************************************************)
Row1(t, s) == t.num >= 7500 * t.den /\ s > 3000
Row2(t, s) == t.num >= 6000 * t.den /\ s > 1000
Row3(t, s) == t.num >= 4000 * t.den \/ (-2000 < s /\ s < 2000)
Row4(t, s) == t.num >= 2500 * t.den \/ s > -4000

\* The label the decision table gives, read top-down.
TableLabel(t, s) ==
    CASE Row1(t, s) -> "Strong Buy"
      [] ~Row1(t, s) /\ Row2(t, s) -> "Buy"
      [] ~Row1(t, s) /\ ~Row2(t, s) /\ Row3(t, s) -> "Hold"
      [] ~Row1(t, s) /\ ~Row2(t, s) /\ ~Row3(t, s) /\ Row4(t, s) -> "Sell"
      [] ~Row1(t, s) /\ ~Row2(t, s) /\ ~Row3(t, s) /\ ~Row4(t, s) -> "Strong Sell"

\* C1: whenever calculate_score has returned, its label is the first matching
\* row of the decision table for the (blended, unrounded) total and the
\* summary's average sentiment, and it is one of the five labels.
C1_LabelTable ==
    lastScore.called =>
        /\ lastScore.result.recommendation_label
             = TableLabel(lastScore.result.exact, lastScore.summary.avg_score)
        /\ lastScore.result.recommendation_label
             \in {"Strong Buy", "Buy", "Hold", "Sell", "Strong Sell"}

\* A blended total below 40 that is still Hold through the sentiment band.
C1_Witness ==
    /\ lastScore.called
    /\ lastScore.similarity > 0
    /\ ~AtLeast(lastScore.result.exact, 40)
    /\ lastScore.result.recommendation_label = "Hold"

(***************************************************************************)
(* C3, C4: weight normalization                                            *)
(***************************************************************************)
AllGiven(args) == \A i \in 1..4 : args[i] # NoneArg

ArgSum(args) == args[1][1] + args[2][1] + args[3][1] + args[4][1]

\* Non-negative weights with at least one positive one.
ValidWeights(args) ==
    /\ AllGiven(args)
    /\ \A i \in 1..4 : args[i][1] >= 0
    /\ \E i \in 1..4 : args[i][1] > 0

ProbeSummaries == {MkSummary(a, c[1], c[2], c[3]) :
                      a \in {-5000, 0, 7000}, c \in {<<8, 1, 1>>, <<1, 7, 2>>, <<0, 0, 0>>}}

\* C3: a scorer built from k times valid weights has the same normalized
\* weights, summing to 1, and scores every input like the scorer built from
\* the weights themselves.
C3_ScaleInvariant ==
    (scaled.state # "unbuilt" /\ ValidWeights(scorer.args)) =>
        /\ scorer.state = "ok"
        /\ scaled.state = "ok"
        /\ scaled.w = scorer.w
        /\ scaled.den = scorer.den
        /\ scorer.w[1] + scorer.w[2] + scorer.w[3] + scorer.w[4] = scorer.den
        /\ \A s \in ProbeSummaries, n \in NewsCounts, d \in RecencyDays, m \in Similarities :
              CalculateScore(scaled, s, n, d, m) = CalculateScore(scorer, s, n, d, m)

\* C4: a scorer constructed from four weights that sum to zero (all zero
\* included) is never usable: construction fails.
C4_ZeroWeightsFail ==
    (scorer.state # "unbuilt" /\ AllGiven(scorer.args) /\ ArgSum(scorer.args) = 0) =>
        scorer.state = "error"

C9_WitnessRefused ==
    /\ vecCall.op = "transform"
    /\ vecCall.outcome = "NotFitted"

(***************************************************************************)
(* Claims on the recommender (specification Spec)                          *)
(***************************************************************************)
\* Number of rows of a stock inside the lookback window, counted on the table.
RowsInWindow(stock_code, days_back) ==
    Cardinality({a \in NewsRows(news, stock_code) : a.scraped_age <= days_back})

\* C2: a stock with fewer rows in the window than min_news_count gets the
\* insufficient-data result with the actual count and no sentiment or
\* recommendation, and no entry in get_recommendations; a stock with at least
\* the minimum is never reported as insufficient.
C2_InsufficientData ==
    /\ (ret.op = "analyze_stock" /\ ret.args[1] \in CodeSet) =>
           LET count == RowsInWindow(ret.args[1], ret.args[2])
           IN  /\ count < MinNewsCount =>
                      ret.result = [kind |-> "warning", stock_code |-> ret.args[1],
                                    news_count |-> count, sentiment |-> NoneArg,
                                    recommendation |-> NoneArg]
               /\ count >= MinNewsCount => ret.result.kind # "warning"
    /\ (ret.op = "get_recommendations" /\ ret.result.kind = "ok") =>
           \A k \in 1..Len(ret.result.value) :
               RowsInWindow(ret.result.value[k].stock_code, DefaultDaysBack) >= MinNewsCount

\* C2 witness: a stock with three rows, one of them inside a 7-day window,
\* was analysed and reported insufficient with count 1.
C2_Witness ==
    /\ ret.op = "analyze_stock"
    /\ ret.args[1] \in CodeSet
    /\ ret.result.kind = "warning"
    /\ ret.result.news_count = 1
    /\ Cardinality(NewsRows(news, ret.args[1])) >= MinNewsCount

SumsToTotal(summary) ==
    summary.positive_count + summary.negative_count + summary.neutral_count = summary.total

\* C5: every sentiment summary analyze_stock produces (returned or cached)
\* has positive_count + negative_count + neutral_count = total, whether the
\* per-record results were computed or read back from the stored columns.
C5_CountsSumToTotal ==
    /\ (ret.op = "analyze_stock" /\ ret.result.kind = "ok") =>
           /\ SumsToTotal(ret.result.sentiment)
           /\ ret.result.sentiment.total = ret.result.news_count
    /\ \A c \in CodeSet :
           stock_sentiments[c] # NoneArg => SumsToTotal(stock_sentiments[c])

\* C5 witness: an analysis over four records, some with stored sentiment and
\* some without, one of them neutral.
C5_Witness ==
    /\ ret.op = "analyze_stock"
    /\ ret.result.kind = "ok"
    /\ ret.result.sentiment.total = 4
    /\ ret.result.sentiment.neutral_count > 0
    /\ \E i, j \in 1..Len(ret.result.recent_news) :
           /\ ret.before.stored[ret.result.recent_news[i]] # NoneArg
           /\ ret.before.stored[ret.result.recent_news[j]] = NoneArg

\* The stocks a get_recommendations call with these filters runs over.
Queried(stock_codes, sektor) ==
    {c \in CodeSet : /\ (stock_codes = NoneArg \/ c \in stock_codes[1])
                     /\ (sektor = NoneArg \/ Sektor[c] = sektor[1])}

\* C6: a get_recommendations call does not abort when the analysis of one
\* stock raises: it returns, and (when top_n does not cut the list) every
\* queried stock whose own analysis succeeds has its recommendation.
C6_BatchIsolation ==
    ret.op = "get_recommendations" =>
        /\ ret.result.kind = "ok"
        /\ ret.args[3] >= Len(Codes) =>
               \A c \in Queried(ret.args[1], ret.args[2]) :
                   AnalyzeStock(ret.before, news, c, DefaultDaysBack, ret.args[4]).result.kind = "ok"
                       => \E k \in 1..Len(ret.result.value) :
                              ret.result.value[k].stock_code = c

\* C7: when a later step of analyze_stock raises, the store holds no
\* sentiment value written by that call.
C7_NoWriteOnFailure ==
    (ret.op = "analyze_stock" /\ ret.result.kind = "raised") =>
        stored = ret.before.stored

EmptyCache(st) ==
    [st EXCEPT !.stock_profiles = NewRecommenderState.stock_profiles,
               !.stock_sentiments = NewRecommenderState.stock_sentiments]

\* C8: find_similar_stocks returns what it would return with an empty cache,
\* whatever analyze_stock calls and news updates came before.
C8_CacheNeverStale ==
    ret.op = "find_similar_stocks" =>
        ret.result = FindSimilarStocks(EmptyCache(ret.before), news, ret.args[1],
                                       ret.args[2], ret.args[3], ret.args[4]).result

(***************************************************************************)
(* C10: overlapping analyses of different stocks                           *)
(***************************************************************************)
\* analyze_stock(stock_code, days_back) run alone on a fresh recommender.
Alone(w) == AnalyzeStock(NewRecommenderState, news, w.stock_code, w.days_back, TRUE)

\* Profiles of one length that agree up to the rounding of the fixed-point
\* weights (2 units of 1/10000 per component).
SameProfile(p, q) ==
    /\ Len(p) = Len(q)
    /\ \A k \in 1..Len(p) : p[k] \in Int /\ q[k] \in Int /\ Abs(p[k] - q[k]) <= 2

SameAsAlone(w, alone) ==
    /\ w.result = alone.result
    /\ alone.result.kind = "ok" =>
          /\ SameProfile(stock_profiles[w.stock_code], alone.st.stock_profiles[w.stock_code])
          /\ stock_sentiments[w.stock_code] = alone.st.stock_sentiments[w.stock_code]

\* C10: when analyze_stock calls for two different stocks overlap on one
\* recommender, each call that has finished returned what it returns when
\* run alone, and the caches hold for its stock the profile and the summary
\* that the call run alone puts there.
C10_NoSharedState ==
    \A t \in Callers :
        calls[t].pc = "done" => SameAsAlone(calls[t], Alone(calls[t]))

(***************************************************************************)
(* C11: the label and the returned score                                   *)
(***************************************************************************)
\* C11: in every result of analyze the label is positif exactly when the
\* returned sentiment_score is above 0.2, negatif exactly when it is below
\* -0.2, and netral otherwise.
C11_LabelFromReturnedScore ==
    lastAnalysis.called =>
        /\ lastAnalysis.result.sentiment_label = "positif"
               <=> lastAnalysis.result.sentiment_score > 2000
        /\ lastAnalysis.result.sentiment_label = "negatif"
               <=> lastAnalysis.result.sentiment_score < -2000
        /\ lastAnalysis.result.sentiment_label \in {"positif", "negatif", "netral"}

(***************************************************************************)
(* C12: negated lexicon words                                              *)
(***************************************************************************)
Negated(tokens, i) == i > 1 /\ tokens[i - 1] \in Negations

\* The intensifier, in tenths, that applies to token i.
IntensifierAt(tokens, i) ==
    IF i > 1 /\ tokens[i - 1] \in DOMAIN Intensifiers THEN Intensifiers[tokens[i - 1]]
    ELSE 10

\* Positions of a word in a text, negated or not.
Occurrences(tokens, word, negated) ==
    {i \in 1..Len(tokens) : tokens[i] = word /\ Negated(tokens, i) = negated}

\* Entries of a word in one of the result's word lists.
Entries(list, word) == {k \in 1..Len(list) : list[k][1] = word}

ListScores(list) == AsTuple([k \in 1..Len(list) |-> list[k][2]])

\* What the claim says of the negated occurrence i of a word of lexicon
\* score lexicon_score (tenths): one entry of -0.5 * lexicon_score *
\* intensifier (units of 1/200) in the list `into`, and no entry in the list
\* `outof` beyond those of the word's occurrences that are not negated.
NegatedRecorded(tokens, i, lexicon_score, into, outof) ==
    /\ <<tokens[i], -(lexicon_score * IntensifierAt(tokens, i))>> \in ToSet(into)
    /\ Cardinality(Entries(into, tokens[i]))
           = Cardinality(Occurrences(tokens, tokens[i], TRUE))
    /\ Cardinality(Entries(outof, tokens[i]))
           = Cardinality(Occurrences(tokens, tokens[i], FALSE))

\* C12: a positive word right after a negation adds -0.5 * score *
\* intensifier to the total, counts once, and is listed as negative and not
\* as positive; a negated negative word adds +0.5 * |score| * intensifier
\* and is listed as positive.  The total is the sum of what the lists hold
\* and the matched count is their length.
C12_NegationFlipsAndHalves ==
    (lastAnalysis.called /\ lastAnalysis.given) =>
        /\ \A i \in 1..Len(lastAnalysis.tokens) :
              Negated(lastAnalysis.tokens, i) =>
                 /\ lastAnalysis.tokens[i] \in DOMAIN PositiveWords =>
                       NegatedRecorded(lastAnalysis.tokens, i,
                                       PositiveWords[lastAnalysis.tokens[i]],
                                       lastAnalysis.result.negative_words,
                                       lastAnalysis.result.positive_words)
                 /\ lastAnalysis.tokens[i] \in DOMAIN NegativeWords =>
                       NegatedRecorded(lastAnalysis.tokens, i,
                                       NegativeWords[lastAnalysis.tokens[i]],
                                       lastAnalysis.result.positive_words,
                                       lastAnalysis.result.negative_words)
        /\ lastAnalysis.result.details.raw_score
               = 50 * (SumSeq(ListScores(lastAnalysis.result.positive_words))
                       + SumSeq(ListScores(lastAnalysis.result.negative_words)))
        /\ lastAnalysis.result.details.total_sentiment_words
               = Len(lastAnalysis.result.positive_words)
                 + Len(lastAnalysis.result.negative_words)

\* C12 witness: a text with a negated positive word and a plain occurrence
\* of the same word has been analysed.
C12_Witness ==
    /\ lastAnalysis.called
    /\ lastAnalysis.given
    /\ \E i \in 1..Len(lastAnalysis.tokens) :
          /\ Negated(lastAnalysis.tokens, i)
          /\ lastAnalysis.tokens[i] \in DOMAIN PositiveWords
          /\ Occurrences(lastAnalysis.tokens, lastAnalysis.tokens[i], FALSE) # {}

(***************************************************************************)
(* C13: empty and unmatched texts                                          *)
(***************************************************************************)
\* No lexicon word and no lexicon phrase occurs in the tokens.
NoLexiconMatch(tokens) ==
    /\ \A i \in 1..Len(tokens) :
          tokens[i] \notin (DOMAIN PositiveWords \cup DOMAIN NegativeWords)
    /\ \A i \in 1..(Len(tokens) - 1) :
          <<tokens[i], tokens[i + 1]>> \notin
              (DOMAIN PositiveBigrams \cup DOMAIN NegativeBigrams)

\* C13: for a missing or empty text and for a text without any lexicon word
\* or phrase, analyze returns score 0, label netral, confidence 0 and empty
\* word lists.
C13_EmptyTextIsNeutral ==
    (lastAnalysis.called /\ (~lastAnalysis.given \/ NoLexiconMatch(lastAnalysis.tokens))) =>
        /\ lastAnalysis.result.sentiment_score = 0
        /\ lastAnalysis.result.sentiment_label = "netral"
        /\ lastAnalysis.result.confidence = 0
        /\ lastAnalysis.result.positive_words = <<>>
        /\ lastAnalysis.result.negative_words = <<>>

\* C13 witness: a text of words none of which is in the lexicon has been
\* analysed.
C13_Witness ==
    /\ lastAnalysis.called
    /\ lastAnalysis.given
    /\ Len(lastAnalysis.tokens) >= 2
    /\ NoLexiconMatch(lastAnalysis.tokens)

(***************************************************************************)
(* C14: consistency score                                                  *)
(***************************************************************************)
StrictlyLargest(x, y, z) == x > y /\ x > z

\* The consistency score as the claim states it, in hundredths, for a
\* summary with total > 0: the base and the factor in tenths of a percent.
ClaimedBase(summary) ==
    [num |-> 10000 * Max3(summary.positive_count, summary.negative_count,
                          summary.neutral_count),
     den |-> summary.total]

ClaimedConsistency(summary) ==
    IF summary.total = 0 THEN 5000
    ELSE IF StrictlyLargest(summary.positive_count, summary.negative_count,
                            summary.neutral_count)
    THEN Min2(10000, RoundDiv(ClaimedBase(summary).num * 11, ClaimedBase(summary).den * 10))
    ELSE IF StrictlyLargest(summary.negative_count, summary.positive_count,
                            summary.neutral_count)
    THEN RoundDiv(ClaimedBase(summary).num * 9, ClaimedBase(summary).den * 10)
    ELSE RoundDiv(ClaimedBase(summary).num, ClaimedBase(summary).den)

\* C14: the consistency score of every scored summary is the largest count's
\* share of the total times 100, times 1.1 capped at 100 when positive is
\* strictly the largest count, times 0.9 when negative is strictly the
\* largest, unchanged otherwise, and 50 for an empty summary.
C14_ConsistencyScore ==
    lastScore.called =>
        lastScore.result.consistency_score = ClaimedConsistency(lastScore.summary)

\* C14 witness: a summary whose positive count ties with its neutral count
\* for the largest, and so gets the unmodified base, has been scored.
C14_Witness ==
    /\ lastScore.called
    /\ lastScore.summary.positive_count = lastScore.summary.neutral_count
    /\ lastScore.summary.positive_count > lastScore.summary.negative_count
    /\ lastScore.result.consistency_score
           = RoundDiv(ClaimedBase(lastScore.summary).num, ClaimedBase(lastScore.summary).den)

(***************************************************************************)
(* find_similar_stocks: threshold, order and truncation                    *)
(***************************************************************************)
\* The threshold of find_similar_stocks, in units of 1/10000.
SimilarityThreshold == 1000

CodeIndex(c) == CHOOSE i \in 1..Len(Codes) : Codes[i] = c

\* The stocks the loop compares with the reference.
SimilarCandidates(st, stock_code, exclude_same_sector) ==
    {c \in CodeSet : /\ c # stock_code
                     /\ HasProfile(st, c)
                     /\ ~(exclude_same_sector /\ Sektor[c] = Sektor[stock_code])}

SimilarityTo(st, stock_code, c) ==
    CosineSimilarity(st.stock_profiles[stock_code], st.stock_profiles[c])

\* c comes before d in descending similarity with ties in table order.
RankedBefore(st, stock_code, c, d) ==
    \/ SimilarityTo(st, stock_code, c) > SimilarityTo(st, stock_code, d)
    \/ /\ SimilarityTo(st, stock_code, c) = SimilarityTo(st, stock_code, d)
       /\ CodeIndex(c) < CodeIndex(d)

ReturnedCodes(value) == {value[i].stock_code : i \in 1..Len(value)}

\* The claimed result: value lists, ranked, the first top_n of the stocks
\* kept.
RankedTopOf(st, stock_code, top_n, kept, value) ==
    /\ Len(value) = Min2(top_n, Cardinality(kept))
    /\ ReturnedCodes(value) \subseteq kept
    /\ \A i \in 1..Len(value) :
          value[i].similarity = SimilarityTo(st, stock_code, value[i].stock_code)
    /\ \A i \in 1..Len(value), j \in 1..Len(value) :
          i < j => RankedBefore(st, stock_code, value[i].stock_code, value[j].stock_code)
    /\ \A c \in kept \ ReturnedCodes(value), i \in 1..Len(value) :
          RankedBefore(st, stock_code, value[i].stock_code, c)

\* C15: find_similar_stocks(reference, top_n) returns at most top_n analysed
\* candidates and never the reference; a candidate whose similarity is below
\* the threshold 0.1 is removed and one whose similarity is at or above it
\* is kept before the truncation; the result is in non-increasing order of
\* similarity, candidates of equal similarity in candidate order.
C15_ThresholdOrderTruncation ==
    (/\ ret.op = "find_similar_stocks"
     /\ ret.result.kind = "ok"
     /\ HasProfile(RecState, ret.args[1]))
    => /\ Len(ret.result.value) <= ret.args[2]
       /\ ret.args[1] \notin ReturnedCodes(ret.result.value)
       /\ RankedTopOf(RecState, ret.args[1], ret.args[2],
              {c \in SimilarCandidates(RecState, ret.args[1], ret.args[3]) :
                  SimilarityTo(RecState, ret.args[1], c) >= SimilarityThreshold},
              ret.result.value)

(***************************************************************************)
(* compare_stocks                                                          *)
(***************************************************************************)
\* Position of a stock in the input dict.
InputIndex(stock_scores, code) ==
    CHOOSE i \in 1..Len(stock_scores) : stock_scores[i].code = code

InputCodes(stock_scores) == {stock_scores[i].code : i \in 1..Len(stock_scores)}

\* The total compare_stocks reads for an input item.
InputTotal(scores) == IF "total_score" \in DOMAIN scores THEN scores.total_score ELSE 0

\* C16: compare_stocks returns exactly one entry per input entity, ordered by
\* non-increasing total_score, with ranks 1..n in list order; entities of
\* equal total keep their input order and get distinct consecutive ranks.
C16_CompareRanks ==
    lastCall.op = "compare_stocks" =>
        /\ Len(lastCall.result.value) = Len(lastCall.args.stock_scores)
        /\ {lastCall.result.value[i].stock_code : i \in 1..Len(lastCall.result.value)}
               = InputCodes(lastCall.args.stock_scores)
        /\ \A i \in 1..Len(lastCall.result.value) :
              /\ lastCall.result.value[i].rank = i
              /\ lastCall.result.value[i].total_score =
                     InputTotal(lastCall.args.stock_scores[InputIndex(lastCall.args.stock_scores,
                                    lastCall.result.value[i].stock_code)].scores)
        /\ \A i \in 1..Len(lastCall.result.value), j \in 1..Len(lastCall.result.value) :
              i < j =>
                  /\ lastCall.result.value[i].total_score >= lastCall.result.value[j].total_score
                  /\ lastCall.result.value[i].total_score = lastCall.result.value[j].total_score
                         => InputIndex(lastCall.args.stock_scores, lastCall.result.value[i].stock_code)
                                < InputIndex(lastCall.args.stock_scores, lastCall.result.value[j].stock_code)

\* C16 witness: three entities, two of equal total behind a smaller one in
\* the input, so that the sort moves them and has to keep their order.
C16_Witness ==
    /\ lastCall.op = "compare_stocks"
    /\ Len(lastCall.args.stock_scores) = 3
    /\ InputTotal(lastCall.args.stock_scores[1].scores) < InputTotal(lastCall.args.stock_scores[2].scores)
    /\ InputTotal(lastCall.args.stock_scores[2].scores) = InputTotal(lastCall.args.stock_scores[3].scores)
    /\ lastCall.result.value[1].stock_code = lastCall.args.stock_scores[2].code
    /\ lastCall.result.value[2].stock_code = lastCall.args.stock_scores[3].code
    /\ lastCall.result.value[3].rank = 3

(***************************************************************************)
(* json_to_vector                                                          *)
(***************************************************************************)
\* The dimension the caller asked for: size, or max_features by default.
RequestedSize(size) == IF size = NoneArg THEN JsonMaxFeatures ELSE size[1]

\* The members of a well-formed serialized sparse vector: integer keys and
\* number values.
SparsePairs(parsed) ==
    /\ parsed.ok
    /\ parsed.value.type = "object"
    /\ \A i \in 1..Len(parsed.value.pairs) :
          /\ PyInt[parsed.value.pairs[i].key] # NoneArg
          /\ parsed.value.pairs[i].value.type = "number"

IndexOf(pair) == PyInt[pair.key][1]

\* The vector the claim describes: the last pair of an index inside
\* 0..size-1 sets its position, every other position is 0.
InRangeOnly(pairs, size) ==
    [k \in 1..size |->
        IF \E i \in 1..Len(pairs) : IndexOf(pairs[i]) = k - 1
        THEN pairs[CHOOSE i \in 1..Len(pairs) :
                       /\ IndexOf(pairs[i]) = k - 1
                       /\ \A j \in (i + 1)..Len(pairs) : IndexOf(pairs[j]) # k - 1].value.v
        ELSE 0]

\* C17: json_to_vector(json, size) returns a zero-filled vector of exactly
\* the requested dimension in which only the pairs whose index lies in
\* 0..size-1 are set; a pair whose index is too large or negative is dropped
\* without error and changes no position.
C17_OutOfRangeDropped ==
    (/\ lastCall.op = "json_to_vector"
     /\ SparsePairs(JsonLoads(lastCall.args.json_str)))
    => /\ lastCall.result.kind = "ok"
       /\ lastCall.result.vector =
              InRangeOnly(JsonLoads(lastCall.args.json_str).value.pairs,
                          RequestedSize(lastCall.args.size))

\* The kinds of error that report a malformed text: json.JSONDecodeError and
\* the ValueError it derives from.
DecodeErrors == {"JSONDecodeError", "ValueError"}

\* C18: json_to_vector fails with a decode error, and returns no vector, for
\* every text that is not a well-formed serialized sparse vector: not valid
\* JSON, not an object of index -> value pairs, or an object with a key that
\* is not an integer index.
C18_MalformedFailsToDecode ==
    (/\ lastCall.op = "json_to_vector"
     /\ ~SparsePairs(JsonLoads(lastCall.args.json_str)))
    => /\ lastCall.result.kind = "raised"
       /\ lastCall.result.error \in DecodeErrors

(***************************************************************************)
(* build_profile_from_news on an empty list                                *)
(***************************************************************************)
\* C19: build_profile_from_news with an empty list of texts, with or without
\* weights, never fails, returns an all-zero vector of max_features entries
\* and leaves the vectorizer as it was, neither fitted nor re-fitted.
C19_EmptyTextsZeroProfile ==
    (/\ lastCall.op = "build_profile_from_news"
     /\ lastCall.args.news_texts = <<>>)
    => /\ lastCall.result.kind = "ok"
       /\ Len(lastCall.result.profile) = MaxFeaturesTfidf
       /\ \A k \in 1..Len(lastCall.result.profile) : lastCall.result.profile[k] = 0
       /\ vec = lastCall.args.vectorizer

\* C19 witness: an empty list without weights, on a builder fitted by an
\* earlier call, whose fitted state is kept.
C19_Witness ==
    /\ lastCall.op = "build_profile_from_news"
    /\ lastCall.args.news_texts = <<>>
    /\ lastCall.args.weights = NoneArg
    /\ lastCall.result.kind = "ok"
    /\ vec.is_fitted
    /\ vec.feature_names # {}

(***************************************************************************)
(* _calculate_recency_weights                                              *)
(***************************************************************************)
\* The age the claim names: published_date's, or else scraped_at's.
ClaimedAge(row) ==
    IF row.published_age = NoneArg THEN row.scraped_age ELSE row.published_age[1]

\* max(exp(-age_days / 30), 0.1) in units of 1/10000.
ClaimedDecay(row) == Max2(ExpNeg60(2 * ClaimedAge(row)), 1000)

\* w is proportional to the claimed decay of the rows, each weight being cut
\* to a whole number of units: w[i] * d[j] and w[j] * d[i] differ by less
\* than one unit of the larger side.
ProportionalToDecay(w, rows) ==
    \A i \in 1..Len(rows), j \in 1..Len(rows) :
        /\ w[i] * ClaimedDecay(rows[j]) - w[j] * ClaimedDecay(rows[i]) < ClaimedDecay(rows[i])
        /\ w[j] * ClaimedDecay(rows[i]) - w[i] * ClaimedDecay(rows[j]) < ClaimedDecay(rows[j])

\* The weights sum to 1, up to the unit cut from each of them.
SumsToOne(w) == SumSeq(w) <= 10000 /\ SumSeq(w) >= 10000 - Len(w)

\* C20: for a non-empty batch _calculate_recency_weights returns one weight
\* per record, in record order, all positive and summing to 1, each
\* proportional to max(exp(-age_days/30), 0.1) with the age taken from
\* published_date or else scraped_at, and a record that is not older than
\* another never gets a smaller weight; for an empty batch it returns [].
C20_RecencyWeights ==
    lastCall.op = "_calculate_recency_weights" =>
        IF lastCall.args.news_list = <<>> THEN lastCall.result.value = <<>>
        ELSE /\ Len(lastCall.result.value) = Len(lastCall.args.news_list)
             /\ \A i \in 1..Len(lastCall.result.value) : lastCall.result.value[i] > 0
             /\ SumsToOne(lastCall.result.value)
             /\ ProportionalToDecay(lastCall.result.value, lastCall.args.news_list)
             /\ \A i \in 1..Len(lastCall.args.news_list), j \in 1..Len(lastCall.args.news_list) :
                   ClaimedAge(lastCall.args.news_list[i]) <= ClaimedAge(lastCall.args.news_list[j])
                       => lastCall.result.value[i] >= lastCall.result.value[j]

\* C20 witness: a batch of three: a row without published_date that was
\* scraped long ago, a row published 70 days ago (floored) and a row
\* published today, which gets the largest weight.
C20_Witness ==
    /\ lastCall.op = "_calculate_recency_weights"
    /\ Len(lastCall.args.news_list) = 3
    /\ lastCall.args.news_list[1] = [published_age |-> NoneArg, scraped_age |-> 100]
    /\ lastCall.args.news_list[2] = [published_age |-> Some(70), scraped_age |-> 0]
    /\ lastCall.args.news_list[3] = [published_age |-> Some(0), scraped_age |-> 100]
    /\ lastCall.result.value[1] = lastCall.result.value[2]
    /\ lastCall.result.value[3] > lastCall.result.value[2]

(***************************************************************************)
(* get_top_keywords                                                        *)
(***************************************************************************)
\* Position of a term in the sorted vocabulary of a processed text.
FeatureIndex(processed, term) ==
    CHOOSE k \in 1..Len(SortTerms(Ngrams(processed))) : SortTerms(Ngrams(processed))[k] = term

\* Non-increasing weights, equal weights by ascending feature index.
InKeywordOrder(processed, keywords) ==
    \A i \in 1..Len(keywords), j \in 1..Len(keywords) :
        i < j => \/ keywords[i].weight > keywords[j].weight
                 \/ /\ keywords[i].weight = keywords[j].weight
                    /\ FeatureIndex(processed, keywords[i].term)
                           < FeatureIndex(processed, keywords[j].term)

\* C21: get_top_keywords(text, n) returns at most n (term, weight) pairs
\* for every n >= 0, all with weight > 0, in non-increasing weight order,
\* terms of equal weight in feature index order; for text that normalizes
\* to nothing it returns an empty list.
C21_TopKeywords ==
    lastCall.op = "get_top_keywords" =>
        /\ Len(lastCall.result.value) <= lastCall.args.top_n
        /\ \A i \in 1..Len(lastCall.result.value) : lastCall.result.value[i].weight > 0
        /\ InKeywordOrder(Preprocess(vec.preprocessor, lastCall.args.text), lastCall.result.value)
        /\ Preprocess(vec.preprocessor, lastCall.args.text) = <<>> => lastCall.result.value = <<>>

(***************************************************************************)
(* _cosine_similarity                                                      *)
(***************************************************************************)
\* A vector that is missing, or whose entries are all zero.
MissingOrZero(v) == v = NoneArg \/ \A k \in 1..Len(v[1]) : v[1][k] = 0

SameLength(a, b) == a # NoneArg /\ b # NoneArg /\ Len(a[1]) = Len(b[1])

\* C22: _cosine_similarity(a, b) returns exactly 0.0, without raising,
\* whenever either vector is missing or has zero norm; for two vectors of
\* equal length cosine(a, b) = cosine(b, a).
C22_ZeroNormAndSymmetry ==
    lastCall.op = "_cosine_similarity" =>
        /\ MissingOrZero(lastCall.args.vec1) \/ MissingOrZero(lastCall.args.vec2)
               => lastCall.result = [kind |-> "ok", value |-> 0]
        /\ SameLength(lastCall.args.vec1, lastCall.args.vec2)
               => lastCall.result = CosineSimilarityOf(lastCall.args.vec2, lastCall.args.vec1)

(***************************************************************************)
(* calculate_score on the "Negative" example                               *)
(***************************************************************************)
\* The weights 0.4 / 0.2 / 0.2 / 0.2 as the scorer keeps them.
HasDefaultWeights(sc) == sc.state = "ok" /\ sc.w = <<2, 1, 1, 1>> /\ sc.den = 5

\* The call of the example: avg_score -0.5, 1 positive, 7 negative and
\* 2 neutral of 10, 20 articles, 3 days, no similarity.
NegativeExampleCalled ==
    /\ lastScore.called
    /\ HasDefaultWeights(scorer)
    /\ lastScore.summary = MkSummary(-5000, 1, 7, 2)
    /\ lastScore.news_count = 20
    /\ lastScore.recency_days = 3
    /\ lastScore.similarity = 0

\* C23: with the default weights, calculate_score on the example returns
\* the label Strong Sell or Sell.
C23_NegativeExampleSells ==
    NegativeExampleCalled => lastScore.result.recommendation_label \in {"Strong Sell", "Sell"}

\* C23 as amended: with the default weights, calculate_score on the example
\* returns the total 53.34 (sentiment 25, frequency 63.21, recency 90.48,
\* consistency 63) and, the total being at least 40, the label Hold.
C23_NegativeExampleHolds ==
    NegativeExampleCalled =>
        /\ lastScore.result.total_score = 5334
        /\ lastScore.result.recommendation_label = "Hold"

\* C23 witness: the example has been scored by a scorer built with no
\* arguments.
C23_Witness ==
    /\ NegativeExampleCalled
    /\ scorer.args = <<NoneArg, NoneArg, NoneArg, NoneArg>>
    /\ lastScore.result.sentiment_score = 2500
    /\ lastScore.result.consistency_score = 6300

(***************************************************************************)
(* update_news_for_stock                                                   *)
(***************************************************************************)
\* C24: after update_news_for_stock returns, the number of News rows it
\* added to the database equals stats['new_saved'], and no URL is stored
\* twice, for every combination of scraper results, including the same URL
\* returned for both keywords or by two scrapers within the call.
C24_SavedCountMatchesRows ==
    lastCall.op = "update_news_for_stock" =>
        /\ Len(news_rows) - Len(lastCall.args.rows) = lastCall.result.value.new_saved
        /\ NoDuplicates(news_rows)

(***************************************************************************)
(* fetch_page                                                              *)
(***************************************************************************)
\* k copies of x.
Copies(x, k) == [i \in 1..k |-> x]

\* The call has made at most max_retries GETs; a returned page comes with
\* the first successful GET, which is the last one made; None comes after
\* max_retries failed GETs; 2 * delay was waited after every failed GET
\* but the last of a call that returns None.
FetchWithinRetries(f) ==
    /\ Len(f.outcomes) <= MaxRetries
    /\ \A i \in 1..(Len(f.outcomes) - 1) : f.outcomes[i] = "failed"
    /\ f.result = "soup" =>
          /\ f.outcomes[Len(f.outcomes)] = "ok"
          /\ f.slept = Copies(2 * DelayBetweenRequests, Len(f.outcomes) - 1)
                           \o <<DelayBetweenRequests>>
    /\ f.result = "None" =>
          /\ f.outcomes = Copies("failed", MaxRetries)
          /\ f.slept = Copies(2 * DelayBetweenRequests, MaxRetries - 1)
    /\ f.pc = "get" =>
          /\ f.outcomes = Copies("failed", Len(f.outcomes))
          /\ f.slept = Copies(2 * DelayBetweenRequests, Len(f.outcomes))

\* C25: fetch_page always terminates after at most max_retries GET
\* attempts: it returns the parsed page at the first successful attempt and
\* makes no further attempt, it returns None only after max_retries
\* consecutive failures, and it waits 2 * delay between failed attempts but
\* not after the last one.
C25_FetchTerminates ==
    /\ [](\A s \in ScraperNames : FetchWithinRetries(fetches[s]))
    /\ \A s \in ScraperNames : (fetches[s].pc = "get") ~> (fetches[s].pc = "done")

\* C25 witness: one scraper has given up after three failed GETs with two
\* waits, the other has the page from its second GET.
C25_Witness ==
    /\ fetches["kontan"].result = "None"
    /\ fetches["kontan"].outcomes = <<"failed", "failed", "failed">>
    /\ fetches["kontan"].slept = <<4, 4>>
    /\ fetches["detik"].result = "soup"
    /\ fetches["detik"].outcomes = <<"failed", "ok">>

(***************************************************************************)
(* Similarity as a bonus                                                   *)
(***************************************************************************)
\* The total the same scorer returns for the same inputs without similarity.
TotalWithoutSimilarity ==
    CalculateScore(scorer, lastScore.summary, lastScore.news_count,
                   lastScore.recency_days, 0).total_score

\* C26: for every summary, article count and recency, calculate_score with
\* a similarity_score in (0, 1] never returns a lower total_score than with
\* similarity_score = 0 and the same other inputs.
C26_SimilarityNeverLowers ==
    (lastScore.called /\ lastScore.similarity > 0 /\ lastScore.similarity <= 100)
        => lastScore.result.total_score >= TotalWithoutSimilarity

(***************************************************************************)
(* get_preprocessor                                                        *)
(***************************************************************************)
\* The settings a call asks for: stemming only where Sastrawi is there.
Requested(use_stemming, remove_stopwords) ==
    [use_stemming |-> use_stemming /\ nlp_modules.SASTRAWI_AVAILABLE,
     remove_stopwords |-> remove_stopwords]

\* C27: get_preprocessor(use_stemming, remove_stopwords) returns a
\* preprocessor whose settings are those requested by that call, whatever
\* calls preceded it; the normalizer of a TFIDFVectorizer removes stopwords
\* (and stems when the stemmer is available) whether a SentimentAnalyzer,
\* which requests both off, was constructed before it or after it.
C27_PreprocessorAsRequested ==
    /\ lastCall.op = "get_preprocessor" =>
          lastCall.result.value
              = Requested(lastCall.args.use_stemming, lastCall.args.remove_stopwords)
    /\ lastCall.op = "TFIDFVectorizer" => lastCall.result.value = Requested(TRUE, TRUE)
    /\ lastCall.op = "SentimentAnalyzer" => lastCall.result.value = Requested(FALSE, FALSE)

(***************************************************************************)
(* The profile cache                                                       *)
(***************************************************************************)
CachedCodes == {c \in CodeSet : stock_profiles[c] # NoProfile}

\* C28: after any sequence of analyze_stock calls on one recommender, any
\* two cached profile vectors have the same dimension (one entry per term
\* of one shared vocabulary), so that the cosine similarity of every cached
\* pair never fails on a length mismatch; the profile cache and the
\* sentiment-summary cache hold the same set of keys.
C28_CachedProfilesComparable ==
    /\ \A c \in CachedCodes, d \in CachedCodes :
          Len(stock_profiles[c]) = Len(stock_profiles[d])
    /\ CachedCodes = {c \in CodeSet : stock_sentiments[c] # NoneArg}

(***************************************************************************)
(* Order of the labels                                                     *)
(***************************************************************************)
LabelRank(label) ==
    CASE label = "Strong Sell" -> 1
      [] label = "Sell" -> 2
      [] label = "Hold" -> 3
      [] label = "Buy" -> 4
      [] label = "Strong Buy" -> 5

\* The label the same scorer gives the last call's inputs with another
\* average sentiment.
LabelWithAvg(avg) ==
    CalculateScore(scorer, [lastScore.summary EXCEPT !.avg_score = avg],
                   lastScore.news_count, lastScore.recency_days,
                   lastScore.similarity).recommendation_label

\* Totals of whole points, as fractions of hundredths.
WholeTotals == {[num |-> 100 * k, den |-> 1] : k \in 0..100}

NotBelow(t, u) == t.num * u.den >= u.num * t.den

\* Raising avg_score, all else fixed, never yields a worse label.
MonotoneInSentiment ==
    lastScore.called =>
        \A avg \in AvgScores :
            avg >= lastScore.summary.avg_score
                => LabelRank(LabelWithAvg(avg))
                       >= LabelRank(lastScore.result.recommendation_label)

\* With avg_score fixed, a higher total never yields a worse label.
MonotoneInTotal ==
    lastScore.called =>
        \A t \in WholeTotals :
            NotBelow(t, lastScore.result.exact)
                => LabelRank(GetRecommendationLabel(t, lastScore.summary.avg_score))
                       >= LabelRank(lastScore.result.recommendation_label)

\* C29: with weights, article count, recency, label counts and similarity
\* held fixed, the label is monotone in the summary's average sentiment, in
\* the order Strong Sell < Sell < Hold < Buy < Strong Buy; and with the
\* average sentiment fixed a higher total never yields a worse label.
C29_LabelMonotone == MonotoneInSentiment /\ MonotoneInTotal

(***************************************************************************)
(* Negation and intensification                                            *)
(***************************************************************************)
InLexicon(token) == token \in (DOMAIN PositiveWords \cup DOMAIN NegativeWords)

LexiconScore(token) ==
    IF token \in DOMAIN PositiveWords THEN PositiveWords[token] ELSE NegativeWords[token]

\* What a lexicon term adds (units of 1/200) when only the token before it
\* decides: half the flipped score after a negation, the score times the
\* multiplier after an intensifier, the plain score otherwise.
ValueAfter(previous, token) ==
    IF previous \in Negations THEN -(LexiconScore(token) * 10)
    ELSE IF previous \in DOMAIN Intensifiers
    THEN 2 * LexiconScore(token) * Intensifiers[previous]
    ELSE 20 * LexiconScore(token)

UnigramValue(tokens, i) ==
    IF ~InLexicon(tokens[i]) THEN 0
    ELSE ValueAfter(IF i > 1 THEN tokens[i - 1] ELSE "", tokens[i])

BigramValue(tokens, i) ==
    IF i = Len(tokens) THEN 0
    ELSE IF <<tokens[i], tokens[i + 1]>> \in DOMAIN PositiveBigrams
    THEN 20 * PositiveBigrams[<<tokens[i], tokens[i + 1]>>]
    ELSE IF <<tokens[i], tokens[i + 1]>> \in DOMAIN NegativeBigrams
    THEN 20 * NegativeBigrams[<<tokens[i], tokens[i + 1]>>]
    ELSE 0

ValuesByPrevious(tokens) ==
    AsTuple([i \in 1..Len(tokens) |-> UnigramValue(tokens, i) + BigramValue(tokens, i)])

\* The list a unigram entry of value v goes to.
ListOf(result, v) == IF v > 0 THEN result.positive_words ELSE result.negative_words

\* Token i is a lexicon term right after an intensifier that is right after
\* a negation.
AfterNegatedIntensifier(tokens, i) ==
    /\ i > 2
    /\ tokens[i - 2] \in Negations
    /\ tokens[i - 1] \in DOMAIN Intensifiers
    /\ InLexicon(tokens[i])

\* C30: in analyze, negation and intensification are decided from the
\* single immediately preceding token and the negation set and the
\* intensifier table share no term, so no lexicon term is both negated and
\* intensified: a negated term has multiplier 1.0, and a lexicon term
\* preceded by the pair (negation, intensifier), as in 'tidak sangat baik',
\* is scored as intensified and not negated.  The two-word negation entry
\* 'tidak ada' never matches a token.
C30_PrecedingTokenDecides ==
    /\ Negations \cap DOMAIN Intensifiers = {}
    /\ (lastAnalysis.called /\ lastAnalysis.given) =>
          LET tokens == lastAnalysis.tokens
              result == lastAnalysis.result
          IN  /\ result.details.raw_score = 50 * SumSeq(ValuesByPrevious(tokens))
              /\ \A i \in 1..Len(tokens) :
                    /\ tokens[i] # "tidak ada"
                    /\ InLexicon(tokens[i]) =>
                          <<tokens[i], UnigramValue(tokens, i)>>
                              \in ToSet(ListOf(result, UnigramValue(tokens, i)))
                    /\ (InLexicon(tokens[i]) /\ Negated(tokens, i)) =>
                          /\ IntensifierAt(tokens, i) = 10
                          /\ UnigramValue(tokens, i) = -(LexiconScore(tokens[i]) * 10)
                    /\ AfterNegatedIntensifier(tokens, i) =>
                          UnigramValue(tokens, i)
                              = 2 * LexiconScore(tokens[i]) * Intensifiers[tokens[i - 1]]
              /\ tokens = <<"tidak", "sangat", "baik">> =>
                    /\ result.positive_words = <<(<<"baik", 150>>)>>
                    /\ result.negative_words = <<>>
              /\ tokens = <<"tidak", "ada", "baik">> =>
                    /\ result.positive_words = <<(<<"baik", 100>>)>>
                    /\ result.negative_words = <<>>

\* C30 witness: a text with a lexicon term after a negation and an
\* intensifier has been analysed and the term is listed with the
\* intensified score.
C30_Witness ==
    /\ lastAnalysis.called
    /\ lastAnalysis.given
    /\ \E i \in 1..Len(lastAnalysis.tokens) :
          /\ AfterNegatedIntensifier(lastAnalysis.tokens, i)
          /\ <<lastAnalysis.tokens[i],
               2 * LexiconScore(lastAnalysis.tokens[i])
                 * Intensifiers[lastAnalysis.tokens[i - 1]]>>
                 \in ToSet(lastAnalysis.result.positive_words)
                     \cup ToSet(lastAnalysis.result.negative_words)
====
